---------------------------- MODULE Spec2Model ----------------------------
(***************************************************************************)
(* A model of the core of topaz-tak: the 6x6 bitboard (src/bitboard.rs),   *)
(* the per-square piece stack with its incrementally maintained top        *)
(* bitboards and Zobrist hash (src/board/stack.rs), the board's            *)
(* do_move / reverse_move built on the stack operations, and the           *)
(* proof-number tinue search (src/search/proof.rs).                        *)
(*                                                                         *)
(* A u64 is modelled exactly, as the set of its set bit positions 0..63.   *)
(* The Zobrist hash is modelled as the set of keys XORed an odd number of  *)
(* times into it (XOR of independent keys is symmetric difference).        *)
(***************************************************************************)
EXTENDS Integers, Sequences, FiniteSets, TLC

VARIABLES
    roadIn,     \* bitboard.rs: the Bitboard6 that check_road is called on
    roadOut,    \* [called, ret]: whether check_road ran on roadIn, and what it returned
    popIn,      \* bitboard.rs: the Bitboard6 a pop_lowest loop started from
    popBits,    \* the Bitboard6 being popped (the &mut self of pop_lowest)
    popRet,     \* the bitboards pop_lowest returned so far, in call order
    stk,        \* stack.rs: one Stack, [data, index]
    bits,       \* the BitboardStorage the Stack updates: white, black, flat, wall, cap, hash
    stkPanic,   \* TRUE once a Stack operation ended in panic!
    board,      \* the Board: [stacks, bits, reserves, ply]
    revs,       \* lib.rs perft: the RevGameMoves of the do_move calls not yet reversed
    snaps,      \* the Board as it was before each of those do_move calls
    undone,     \* the last reverse_move: [active, rev, before, panic]
    game,       \* the game searched: [root, graph]
    search,     \* the TinueSearch
    frames,     \* the invocations of mid in progress, outermost first
    pvCall,     \* principal_variation: [called, returned, pv, before]
    run,        \* is_tinue: [phase, index, result, root, touched, cap_fired, first]
    bb,         \* two Bitboard6 values under the operators of bitboard.rs: [a, b, n, op, arg]
    bitIter,    \* a BitIndexIterator: [bits, from, last, started, out, panic]
    stkCall,    \* the Stack calls made on stk for the algebraic laws: [op, phase, top_n, stk0, bits0, vec, ok]
    exec,       \* lib.rs execute_moves_check_valid / proof.rs change_view: [fn, phase, requested, made, before, n]
    dresp,      \* a call of defender_responses: [phase, side, stack_moves, road, place_moves, placement, out]
    view        \* an InteractiveSearch: [board, expand, view_hist, created, last, n, legal]

bitVars == <<roadIn, roadOut, popIn, popBits, popRet>>
stackVars == <<stk, bits, stkPanic>>
boardVars == <<board, revs, snaps, undone>>
searchVars == <<game, search, frames, run, pvCall>>
auxVars == <<bb, bitIter, stkCall, exec, dresp, view>>
exceptBb == <<bitVars, stackVars, boardVars, searchVars, bitIter, stkCall, exec, dresp, view>>
exceptCall == <<bitVars, boardVars, searchVars, bb, bitIter, exec, dresp, view>>
exceptExec == <<bitVars, stackVars, searchVars, revs, snaps, undone, bb, bitIter, stkCall, dresp, view>>
exceptDefend == <<bitVars, stackVars, boardVars, searchVars, bb, bitIter, stkCall, exec, view>>
exceptIter == <<bitVars, stackVars, boardVars, searchVars, bb, stkCall, exec, dresp, view>>
vars == <<roadIn, roadOut, popIn, popBits, popRet, stk, bits, stkPanic,
          board, revs, snaps, undone, game, search, frames, run, pvCall, bb,
          bitIter,
          stkCall,
          exec,
          dresp,
          view>>

(***************************************************************************)
(* Bounds of the model.                                                    *)
(***************************************************************************)
\* check_road inputs: at most this many squares set (besides the test vectors)
MaxRoadSquares == 7
\* pop_lowest inputs: at most this many squares set (besides the test vector)
MaxPopSquares == 3
\* the single Stack of the stack specification holds at most this many pieces
MaxHeight == 3
\* perft depth: at most this many do_move calls are pending reversal
MaxDepth == 5
\* the node budgets given to limit(): 0..MaxLimit
MaxLimit == 3
\* at most this many Bitboard6 operators are applied in a row
MaxOps == 3
\* a BitIndexIterator input: at most this many squares are set one by one
MaxIterSquares == 2
\* the Stack the algebraic laws are checked on holds at most this many pieces
MaxCallHeight == 3
\* at most this many moves are requested of execute_moves_check_valid / change_view
MaxMoves == 3
\* the stack moves can_make_road generates for defender_responses: up to
\* MaxStackMoves, and the empty squares of its board: up to MaxEmpty
MaxStackMoves == 2
MaxEmpty == 2

(***************************************************************************)
(* u64 helpers.                                                            *)
(***************************************************************************)
AllBits == 0..63

\* A u64 constant given by its eight bytes, least significant first.
U64(bytes) ==
    UNION { { 8 * (i - 1) + k : k \in { j \in 0..7 : (bytes[i] \div (2 ^ j)) % 2 = 1 } }
            : i \in 1..Len(bytes) }

Xor(a, b) == (a \ b) \cup (b \ a)

MinOf(S) == CHOOSE x \in S : \A y \in S : x <= y

\* u64::trailing_zeros
trailing_zeros(data) == IF data = {} THEN 64 ELSE MinOf(data)

(***************************************************************************)
(* Bitboard6 (src/bitboard.rs).                                            *)
(***************************************************************************)
\* const INNER: u64 = 0x7e7e7e7e7e7e00
INNER == U64(<<0, 126, 126, 126, 126, 126, 126, 0>>)

new_unmasked(data) == data

\* Bitboard6::new
new(data) == data \cap INNER

\* impl BitAnd / BitOr / Not: the result goes through Bitboard6::new
bitand(a, b) == new(a \cap b)
bitor(a, b) == new(a \cup b)
not(a) == new(AllBits \ a)
\* impl BitOrAssign / BitAndAssign: no masking
bitor_assign(a, b) == a \cup b
bitand_assign(a, b) == a \cap b

nonzero(a) == a # {}

adjacent_no_down(data) ==
    LET up == { b - 8 : b \in { x \in data : x >= 8 } }
        left == { b - 1 : b \in { x \in data : x >= 1 } }
        right == { b + 1 : b \in { x \in data : x + 1 <= 63 } }
    IN  new(up \cup left \cup right)

\* Bitboard6::adjacent: data >> 8 | data << 8 | data >> 1 | data << 1
adjacent(data) ==
    LET up == { b - 8 : b \in { x \in data : x >= 8 } }
        down == { b + 8 : b \in { x \in data : x + 8 <= 63 } }
        left == { b - 1 : b \in { x \in data : x >= 1 } }
        right == { b + 1 : b \in { x \in data : x + 1 <= 63 } }
    IN  new(up \cup down \cup left \cup right)

pop_lowest_keep(data) ==
    LET highest_index == trailing_zeros(data)
    IN  IF highest_index = 64
        THEN [ret |-> new({}), rest |-> data]
        ELSE [ret |-> new({highest_index}), rest |-> data]

\* Bitboard6::pop_lowest: ret is the value returned, rest is *self afterwards
pop_lowest(data) ==
    LET highest_index == trailing_zeros(data)
    IN  IF highest_index = 64
        THEN [ret |-> new({}), rest |-> data]
        ELSE LET value == {highest_index}
             IN  [ret |-> new(value), rest |-> Xor(data, value)]

\* constants of check_road
LEFT_TOP == new(U64(<<0, 126, 2, 2, 2, 2, 2, 0>>))     \* 0x2020202027e00
TOP == new(U64(<<0, 126, 0, 0, 0, 0, 0, 0>>))          \* 0x7e00
BOTTOM == new(U64(<<0, 0, 0, 0, 0, 0, 126, 0>>))       \* 0x7e000000000000
LEFT == new(U64(<<0, 2, 2, 2, 2, 2, 2, 0>>))           \* 0x2020202020200
RIGHT == new(U64(<<0, 64, 64, 64, 64, 64, 64, 0>>))    \* 0x40404040404000

\* the inner loop of check_road run as an if: one step of growth only
road_component_once(component, prev, self) ==
    IF component = prev
    THEN component
    ELSE bitor_assign(component, bitand(adjacent(component), self))

\* the inner loop of check_road: while component != prev { ... }
RECURSIVE road_component(_, _, _)
road_component(component, prev, self) ==
    IF component = prev
    THEN component
    ELSE road_component(bitor_assign(component, bitand(adjacent(component), self)),
                        component, self)

\* the outer loop of check_road: while unchecked.nonzero() { ... }
RECURSIVE road_loop(_, _)
road_loop(unchecked, self) ==
    IF ~nonzero(unchecked)
    THEN FALSE
    ELSE LET p == pop_lowest(unchecked)
             component == road_component(p.ret, new({}), self)
         IN  IF nonzero(bitand(component, TOP)) /\ nonzero(bitand(component, BOTTOM))
             THEN TRUE
             ELSE IF nonzero(bitand(component, LEFT)) /\ nonzero(bitand(component, RIGHT))
                  THEN TRUE
                  ELSE road_loop(bitand(p.rest, not(component)), self)

\* Bitboard6::check_road
check_road(self) == road_loop(bitand(self, LEFT_TOP), self)

(***************************************************************************)
(* Piece (its methods are described in the data model; the enum itself is  *)
(* matched on in stack.rs).                                                *)
(***************************************************************************)
Piece == {"WhiteFlat", "BlackFlat", "WhiteWall", "BlackWall", "WhiteCap", "BlackCap"}

owner(p) == IF p \in {"WhiteFlat", "WhiteWall", "WhiteCap"} THEN "White" ELSE "Black"
is_wall(p) == p \in {"WhiteWall", "BlackWall"}
is_cap(p) == p \in {"WhiteCap", "BlackCap"}
is_flat(p) == p \in {"WhiteFlat", "BlackFlat"}
\* Piece::crush / Piece::uncrush: "None" stands for Option::None
crush(p) ==
    CASE p = "WhiteWall" -> "WhiteFlat"
      [] p = "BlackWall" -> "BlackFlat"
      [] OTHER -> "None"
uncrush(p) ==
    CASE p = "WhiteFlat" -> "WhiteWall"
      [] p = "BlackFlat" -> "BlackWall"
      [] OTHER -> "None"

(***************************************************************************)
(* BitboardStorage as stack.rs uses it: five top bitboards and the hash.   *)
(***************************************************************************)
\* Bitboard6::INDEX_TO_BIT, for square indices 0..35
INDEX_TO_BIT ==
    << 9, 10, 11, 12, 13, 14,
       17, 18, 19, 20, 21, 22,
       25, 26, 27, 28, 29, 30,
       33, 34, 35, 36, 37, 38,
       41, 42, 43, 44, 45, 46,
       49, 50, 51, 52, 53, 54 >>

\* Bitboard6::index_to_bit: Self(1 << bit_idx), not masked
index_to_bit(idx) == { INDEX_TO_BIT[idx + 1] }

\* Bitboard6::BIT_TO_INDEX, for bit positions 0..63
EMPTY == 100
BIT_TO_INDEX ==
    << EMPTY, EMPTY, EMPTY, EMPTY, EMPTY, EMPTY, EMPTY, EMPTY,
       EMPTY, 0, 1, 2, 3, 4, 5, EMPTY,
       EMPTY, 6, 7, 8, 9, 10, 11, EMPTY,
       EMPTY, 12, 13, 14, 15, 16, 17, EMPTY,
       EMPTY, 18, 19, 20, 21, 22, 23, EMPTY,
       EMPTY, 24, 25, 26, 27, 28, 29, EMPTY,
       EMPTY, 30, 31, 32, 33, 34, 35, EMPTY,
       EMPTY, EMPTY, EMPTY, EMPTY, EMPTY, EMPTY, EMPTY, EMPTY >>

lowest_index_of_bit(data) ==
    LET raw_index == trailing_zeros(data)
    IN  IF raw_index >= Len(BIT_TO_INDEX)
        THEN [panic |-> TRUE, index |-> 0]
        ELSE [panic |-> FALSE, index |-> raw_index]

\* Bitboard6::lowest_index: BIT_TO_INDEX[trailing_zeros]; on the empty
\* bitboard trailing_zeros is 64 and the index is out of bounds (panic)
lowest_index(data) ==
    LET raw_index == trailing_zeros(data)
    IN  IF raw_index >= Len(BIT_TO_INDEX)
        THEN [panic |-> TRUE, index |-> 0]
        ELSE [panic |-> FALSE, index |-> BIT_TO_INDEX[raw_index + 1]]

\* BitIndexIterator::next on an iterator holding data: the item returned
\* (Some(index) or None), the bits left, and whether lowest_index panicked
next(data) ==
    IF nonzero(data)
    THEN LET p == pop_lowest(data)
             lowest == lowest_index(p.ret)
         IN  [item |-> [some |-> TRUE, n |-> lowest.index],
              bits |-> p.rest,
              panic |-> lowest.panic]
    ELSE [item |-> [some |-> FALSE, n |-> 0], bits |-> data, panic |-> FALSE]

\* `-=` on a bitboard: clears the bits of rhs
sub_assign(a, b) == a \ b

EmptyStorage ==
    [white |-> {}, black |-> {}, flat |-> {}, wall |-> {}, cap |-> {}, hash |-> {}]

\* BitboardStorage::zobrist_top / zobrist_middle: XOR one key of the table
\* into the running hash
zobrist_top(b, piece, index) ==
    [b EXCEPT !.hash = Xor(@, { <<"top", piece, index>> })]
zobrist_middle(b, piece, index, height) ==
    [b EXCEPT !.hash = Xor(@, { <<"mid", piece, index, height>> })]

(***************************************************************************)
(* Stack (src/board/stack.rs).  A Stack is [data, index]; data[1] is the   *)
(* bottom piece.  Every operation that takes the storage returns the new   *)
(* stack st and the new storage b (and what it returns, ret).              *)
(***************************************************************************)
len(self) == Len(self.data)

\* Stack::last, "None" for an empty stack
last(self) == IF self.data = <<>> THEN "None" ELSE self.data[Len(self.data)]

\* Stack::from_top
from_top(self, index) ==
    IF index >= Len(self.data) THEN "None" ELSE self.data[Len(self.data) - index]

\* Stack::hash_in_top
hash_in_top(self, b) ==
    LET bitboard == index_to_bit(self.index)
        top == last(self)
    IN  IF top = "None"
        THEN b
        ELSE LET b1 == IF owner(top) = "White"
                       THEN [b EXCEPT !.white = bitor_assign(@, bitboard)]
                       ELSE [b EXCEPT !.black = bitor_assign(@, bitboard)]
                 b2 == CASE is_flat(top) -> [b1 EXCEPT !.flat = bitor_assign(@, bitboard)]
                         [] is_wall(top) -> [b1 EXCEPT !.wall = bitor_assign(@, bitboard)]
                         [] is_cap(top) -> [b1 EXCEPT !.cap = bitor_assign(@, bitboard)]
             IN  zobrist_top(b2, top, self.index)

hash_out_top_keep_colour(self, b) ==
    LET bitboard == index_to_bit(self.index)
        top == last(self)
    IN  IF top = "None"
        THEN b
        ELSE LET b2 == CASE is_flat(top) -> [b EXCEPT !.flat = sub_assign(@, bitboard)]
                         [] is_wall(top) -> [b EXCEPT !.wall = sub_assign(@, bitboard)]
                         [] is_cap(top) -> [b EXCEPT !.cap = sub_assign(@, bitboard)]
             IN  zobrist_top(b2, top, self.index)

\* Stack::hash_out_top
hash_out_top(self, b) ==
    LET bitboard == index_to_bit(self.index)
        top == last(self)
    IN  IF top = "None"
        THEN b
        ELSE LET b1 == IF owner(top) = "White"
                       THEN [b EXCEPT !.white = sub_assign(@, bitboard)]
                       ELSE [b EXCEPT !.black = sub_assign(@, bitboard)]
                 b2 == CASE is_flat(top) -> [b1 EXCEPT !.flat = sub_assign(@, bitboard)]
                         [] is_wall(top) -> [b1 EXCEPT !.wall = sub_assign(@, bitboard)]
                         [] is_cap(top) -> [b1 EXCEPT !.cap = sub_assign(@, bitboard)]
             IN  zobrist_top(b2, top, self.index)

\* the loop of hash_out_many / hash_in_many: for i in from..to (0-based,
\* to excluded) XOR the middle key of data[i] at height i
RECURSIVE hash_middle_range(_, _, _, _)
hash_middle_range(self, b, from, to) ==
    IF from >= to
    THEN b
    ELSE hash_middle_range(self,
                           zobrist_middle(b, self.data[from + 1], self.index, from),
                           from + 1, to)

\* Stack::hash_out_many (top_n <= len)
hash_out_many(self, top_n, b) ==
    IF len(self) = 0
    THEN b
    ELSE hash_middle_range(self, hash_out_top(self, b), len(self) - top_n, len(self))

hash_in_many_top_only(self, top_n, b) ==
    IF len(self) = 0
    THEN b
    ELSE hash_in_top(self, b)

\* Stack::hash_in_many (top_n <= len)
hash_in_many(self, top_n, b) ==
    IF len(self) = 0
    THEN b
    ELSE hash_middle_range(self, hash_in_top(self, b), len(self) - top_n, len(self))

\* Stack::push
push(self, item, b) ==
    LET b1 == hash_out_top(self, b)
        b2 == zobrist_middle(b1, item, self.index, len(self))
        st == [self EXCEPT !.data = Append(@, item)]
    IN  [st |-> st, b |-> hash_in_top(st, b2)]

\* Stack::pop: ret is the piece, "None" for an empty stack
pop(self, b) ==
    LET b1 == hash_out_top(self, b)
        ret == last(self)
        st == IF ret = "None" THEN self
              ELSE [self EXCEPT !.data = SubSeq(@, 1, Len(@) - 1)]
        b2 == IF ret = "None" THEN b1 ELSE zobrist_middle(b1, ret, self.index, len(st))
    IN  [st |-> st, b |-> hash_in_top(st, b2), ret |-> ret]

\* Stack::extend: one push per piece, in order
RECURSIVE extend(_, _, _)
extend(self, iter, b) ==
    IF iter = <<>>
    THEN [st |-> self, b |-> b]
    ELSE LET r == push(self, Head(iter), b)
         IN  extend(r.st, Tail(iter), r.b)

try_crush_wall_top(self) ==
    IF len(self) >= 2 /\ crush(self.data[len(self)]) # "None"
    THEN [st |-> [self EXCEPT !.data[len(self)] = crush(@)], ret |-> TRUE]
    ELSE [st |-> self, ret |-> FALSE]

\* Stack::try_crush_wall: takes no storage
try_crush_wall(self) ==
    IF len(self) >= 2 /\ crush(self.data[len(self) - 1]) # "None"
    THEN [st |-> [self EXCEPT !.data[len(self) - 1] = crush(@)], ret |-> TRUE]
    ELSE [st |-> self, ret |-> FALSE]

uncrush_wall_silent(self) ==
    IF len(self) >= 2 /\ uncrush(self.data[len(self) - 1]) # "None"
    THEN [st |-> [self EXCEPT !.data[len(self) - 1] = uncrush(@)], panic |-> FALSE]
    ELSE [st |-> self, panic |-> FALSE]

\* Stack::uncrush_wall: takes no storage; panic is TRUE when it ends in panic!
uncrush_wall(self) ==
    IF len(self) >= 2 /\ uncrush(self.data[len(self) - 1]) # "None"
    THEN [st |-> [self EXCEPT !.data[len(self) - 1] = uncrush(@)], panic |-> FALSE]
    ELSE [st |-> self, panic |-> TRUE]

Reverse(s) == [i \in 1..Len(s) |-> s[Len(s) + 1 - i]]

reverse_top_above_two(self, top_n, b) ==
    IF top_n > 2
    THEN LET b1 == hash_out_many(self, top_n, b)
             range_st == len(self) - top_n
             st == [self EXCEPT !.data =
                        SubSeq(@, 1, range_st) \o Reverse(SubSeq(@, range_st + 1, Len(@)))]
         IN  [st |-> st, b |-> hash_in_many(st, top_n, b1)]
    ELSE [st |-> self, b |-> b]

\* Stack::reverse_top (top_n <= len)
reverse_top(self, top_n, b) ==
    IF top_n > 1
    THEN LET b1 == hash_out_many(self, top_n, b)
             range_st == len(self) - top_n
             st == [self EXCEPT !.data =
                        SubSeq(@, 1, range_st) \o Reverse(SubSeq(@, range_st + 1, Len(@)))]
         IN  [st |-> st, b |-> hash_in_many(st, top_n, b1)]
    ELSE [st |-> self, b |-> b]

split_off_no_hash_in(self, top_n, b) ==
    LET b1 == hash_out_many(self, top_n, b)
        split_idx == len(self) - top_n
        vec == SubSeq(self.data, split_idx + 1, len(self))
        st == [self EXCEPT !.data = SubSeq(@, 1, split_idx)]
    IN  [st |-> st, b |-> b1, ret |-> vec]

\* Stack::split_off (top_n <= len): ret is the Vec returned
split_off(self, top_n, b) ==
    LET b1 == hash_out_many(self, top_n, b)
        split_idx == len(self) - top_n
        vec == SubSeq(self.data, split_idx + 1, len(self))
        st == [self EXCEPT !.data = SubSeq(@, 1, split_idx)]
    IN  [st |-> st, b |-> hash_in_top(st, b1), ret |-> vec]

(***************************************************************************)
(* Board: do_move and reverse_move.  Their code is not among the source    *)
(* files; they are modelled from the component design (4.C, 4.D/E) on top  *)
(* of the Stack operations of stack.rs, which fix the order of the calls:  *)
(* try_crush_wall and uncrush_wall act on the piece beneath the top, so    *)
(* the wall is crushed once the capstone lies on it and is restored before *)
(* the capstone is taken off again.                                        *)
(***************************************************************************)
\* Board6: board_size()
BoardSize == 6
\* reserves of the 6x6 game
FlatReserve == 30
CapReserve == 1

\* the squares moves are played on: a1..c1 of the first row and the square
\* below a1, so that all four directions, multi-square drops and crushes occur
BoardSquares == {0, 1, 2, 6}

Colours == {"White", "Black"}
other(c) == IF c = "White" THEN "Black" ELSE "White"
flat(c) == IF c = "White" THEN "WhiteFlat" ELSE "BlackFlat"
wall(c) == IF c = "White" THEN "WhiteWall" ELSE "BlackWall"
cap(c) == IF c = "White" THEN "WhiteCap" ELSE "BlackCap"

\* side-to-move = ply mod 2
side_to_move(b) == IF b.ply % 2 = 0 THEN "White" ELSE "Black"

StackAt(b, sq) == [data |-> b.stacks[sq], index |-> sq]

InitialBoard ==
    [stacks |-> [sq \in BoardSquares |-> <<>>],
     bits |-> EmptyStorage,
     reserves |-> [c \in Colours |-> [flats |-> FlatReserve, caps |-> CapReserve]],
     ply |-> 0]

\* the square one step from sq in direction dir, -1 when the step leaves the board
Step(sq, dir) ==
    CASE dir = "N" -> IF sq < BoardSize THEN -1 ELSE sq - BoardSize
      [] dir = "S" -> IF sq + BoardSize >= BoardSize * BoardSize THEN -1 ELSE sq + BoardSize
      [] dir = "W" -> IF sq % BoardSize = 0 THEN -1 ELSE sq - 1
      [] dir = "E" -> IF sq % BoardSize = BoardSize - 1 THEN -1 ELSE sq + 1

\* the squares a stack move drops on, nearest first; <<>> when it leaves the
\* squares played on
RECURSIVE Path(_, _, _)
Path(sq, dir, steps) ==
    IF steps = 0
    THEN <<>>
    ELSE LET nxt == Step(sq, dir)
         IN  IF nxt \notin BoardSquares
             THEN <<>>
             ELSE LET rest == Path(nxt, dir, steps - 1)
                  IN  IF steps > 1 /\ rest = <<>> THEN <<>> ELSE <<nxt>> \o rest

\* the drop sequences of a pickup of n pieces: positive counts that sum to n
RECURSIVE Compositions(_)
Compositions(n) ==
    IF n = 0
    THEN { <<>> }
    ELSE UNION { { <<k>> \o c : c \in Compositions(n - k) } : k \in 1..n }

\* placements: on each empty square, flat, wall or cap subject to the
\* reserves; on plies 0 and 1 only a flat of the opponent's colour
PlaceMoves(b) ==
    LET me == side_to_move(b)
        empty == { sq \in BoardSquares : b.stacks[sq] = <<>> }
    IN  IF b.ply < 2
        THEN { [kind |-> "place", piece |-> flat(other(me)), sq |-> sq] :
               sq \in { e \in empty : b.reserves[other(me)].flats > 0 } }
        ELSE { [kind |-> "place", piece |-> p, sq |-> sq] :
               sq \in empty,
               p \in { q \in {flat(me), wall(me), cap(me)} :
                       IF is_cap(q) THEN b.reserves[me].caps > 0
                       ELSE b.reserves[me].flats > 0 } }

\* a stack move is legal when no square before the last holds a wall or cap
\* on top, the last square holds no cap, and the last square holds a wall
\* only if the moving pile's top is a cap and one piece is dropped there
StackMoveLegal(b, src, path, n, drops) ==
    LET lastSq == path[Len(path)]
        lastTop == last(StackAt(b, lastSq))
    IN  /\ \A k \in 1..(Len(path) - 1) :
              LET t == last(StackAt(b, path[k])) IN t = "None" \/ is_flat(t)
        /\ lastTop = "None" \/ ~is_cap(lastTop)
        /\ (lastTop # "None" /\ is_wall(lastTop)) =>
               (is_cap(last(StackAt(b, src))) /\ drops[Len(drops)] = 1)

\* stack moves: from each square the side to move controls, in each
\* direction, every pickup count up to the carry limit and every drop
\* sequence; the crush flag is set exactly when the last square holds a wall
StackMoves(b) ==
    IF b.ply < 2
    THEN {}
    ELSE LET me == side_to_move(b)
             mine == { sq \in BoardSquares :
                       b.stacks[sq] # <<>> /\ owner(last(StackAt(b, sq))) = me }
             MinInt(x, y) == IF x < y THEN x ELSE y
         IN  UNION { UNION { UNION {
                 { [kind |-> "stack", src |-> src, dir |-> dir, number |-> n,
                    drops |-> drops,
                    crush |-> LET t == last(StackAt(b, Path(src, dir, Len(drops))[Len(drops)]))
                              IN  t # "None" /\ is_wall(t)] :
                   drops \in { d \in Compositions(n) :
                               /\ Path(src, dir, Len(d)) # <<>>
                               /\ StackMoveLegal(b, src, Path(src, dir, Len(d)), n, d) } }
                 : n \in 1..MinInt(Len(b.stacks[src]), BoardSize) }
                 : dir \in {"N", "E", "S", "W"} }
                 : src \in mine }

\* generate_all_moves
LegalMoves(b) == PlaceMoves(b) \cup StackMoves(b)

PutStack(b, r) == [b EXCEPT !.stacks[r.st.index] = r.st.data, !.bits = r.b]

\* the drop walk of do_move: drops[k] pieces, lowest first, onto path[k]
RECURSIVE DropWalk(_, _, _, _)
DropWalk(b, pieces, path, drops) ==
    IF drops = <<>>
    THEN b
    ELSE LET q == Head(drops)
             r == extend(StackAt(b, Head(path)), SubSeq(pieces, 1, q), b.bits)
         IN  DropWalk(PutStack(b, r), SubSeq(pieces, q + 1, Len(pieces)),
                      Tail(path), Tail(drops))

\* Board::do_move: the board afterwards and the RevGameMove returned
do_move(b, m) ==
    IF m.kind = "place"
    THEN LET r == push(StackAt(b, m.sq), m.piece, b.bits)
             b1 == PutStack(b, r)
             c == owner(m.piece)
             b2 == IF is_cap(m.piece)
                   THEN [b1 EXCEPT !.reserves[c].caps = @ - 1]
                   ELSE [b1 EXCEPT !.reserves[c].flats = @ - 1]
         IN  [board |-> [b2 EXCEPT !.ply = @ + 1],
              rev |-> [game_move |-> m, dest_sq |-> m.sq]]
    ELSE LET path == Path(m.src, m.dir, Len(m.drops))
             dest == path[Len(path)]
             r0 == split_off(StackAt(b, m.src), m.number, b.bits)
             b1 == DropWalk(PutStack(b, r0), r0.ret, path, m.drops)
             b2 == IF m.crush
                   THEN [b1 EXCEPT !.stacks[dest] = try_crush_wall(StackAt(b1, dest)).st.data]
                   ELSE b1
         IN  [board |-> [b2 EXCEPT !.ply = @ + 1],
              rev |-> [game_move |-> m, dest_sq |-> dest]]

\* reverse_move, gathering: count pieces are popped off square sq and pushed
\* onto the source square, top piece first
RECURSIVE TakeBack(_, _, _, _)
TakeBack(b, sq, src, count) ==
    IF count = 0
    THEN b
    ELSE LET r == pop(StackAt(b, sq), b.bits)
             b1 == PutStack(b, r)
             r2 == push(StackAt(b1, src), r.ret, b1.bits)
         IN  TakeBack(PutStack(b1, r2), sq, src, count - 1)

\* reverse_move, the walk back from the last square to the first
RECURSIVE GatherWalk(_, _, _, _)
GatherWalk(b, src, path, drops) ==
    IF drops = <<>>
    THEN b
    ELSE LET k == Len(drops)
         IN  GatherWalk(TakeBack(b, path[k], src, drops[k]), src,
                        SubSeq(path, 1, k - 1), SubSeq(drops, 1, k - 1))

\* Board::reverse_move: the board afterwards; panic when uncrush_wall panics
reverse_move(b, rev) ==
    LET m == rev.game_move
    IN  IF m.kind = "place"
        THEN LET r == pop(StackAt(b, m.sq), b.bits)
                 b1 == PutStack(b, r)
                 c == owner(m.piece)
                 b2 == IF is_cap(m.piece)
                       THEN [b1 EXCEPT !.reserves[c].caps = @ + 1]
                       ELSE [b1 EXCEPT !.reserves[c].flats = @ + 1]
             IN  [board |-> [b2 EXCEPT !.ply = @ - 1], panic |-> FALSE]
        ELSE LET path == Path(m.src, m.dir, Len(m.drops))
                 u == IF m.crush
                      THEN uncrush_wall(StackAt(b, rev.dest_sq))
                      ELSE [st |-> StackAt(b, rev.dest_sq), panic |-> FALSE]
                 b1 == [b EXCEPT !.stacks[rev.dest_sq] = u.st.data]
                 b2 == GatherWalk(b1, m.src, path, m.drops)
                 r == reverse_top(StackAt(b2, m.src), m.number, b2.bits)
             IN  [board |-> [PutStack(b2, r) EXCEPT !.ply = @ - 1], panic |-> u.panic]

(***************************************************************************)
(* The tinue search of proof.rs: a depth-first proof-number search.  The   *)
(* Board it searches is not among the source files: a position is          *)
(* represented by its Zobrist hash, and the game by a graph that gives,    *)
(* for each position, the side to move, whether the game is over, whether  *)
(* the side to move can complete a road, and the moves the search is       *)
(* offered there (tak threats for the attacker, defences for the           *)
(* defender), in the order they are generated.                             *)
(***************************************************************************)
INFINITY == 100000000

\* a usize that may be usize::MAX, which is beyond the integers of the
\* model: [max |-> TRUE] is usize::MAX, [max |-> FALSE, n |-> k] is k
Usize(k) == [max |-> FALSE, n |-> k]
USIZE_MAX == [max |-> TRUE, n |-> 0]

usize_ge(a, b) == ~b.max /\ a >= b.n

\* a > b for a counter a (below usize::MAX) and a usize b
usize_gt(a, b) == ~b.max /\ a > b.n

\* GameMove: the position it leads to stands for the move
GameMove(to, stack) == [to |-> to, is_stack_move |-> stack]
null_move == GameMove("null", FALSE)

\* --- the Board as seen by the search ---
board_side_to_move(b) == game.graph[b].side
flat_game(b) == game.graph[b].terminal
can_make_road(b) == game.graph[b].road
\* the moves that complete a road in b, in the order they are generated; a
\* move that threatens in one position can complete a road in another
road_moves(b) ==
    IF ~game.graph[b].road THEN <<>>
    ELSE IF b = "D3"
         THEN <<GameMove("R2", TRUE), GameMove("R1", FALSE)>>
         ELSE <<GameMove("R1", FALSE), GameMove("D2", FALSE), GameMove("R2", TRUE)>>
\* can_make_road(&mut moves, hint): the hinted moves are tried first
RECURSIVE first_road(_, _)
first_road(candidates, roads) ==
    IF candidates = <<>> THEN null_move
    ELSE IF \E i \in 1..Len(roads) : roads[i] = Head(candidates)
         THEN Head(candidates)
         ELSE first_road(Tail(candidates), roads)
can_make_road_hint(b, hint) == first_road(hint \o road_moves(b), road_moves(b))
\* get_tak_threats(&moves, hint): the threats in the order of moves
get_tak_threats(b, hint) == game.graph[b].moves
\* get_tak_threats (attacker to move) / the defences generated (defender)
board_moves(b) == game.graph[b].moves
\* do_move: the position after the move and the RevGameMove
board_do_move(b, m) == [board |-> m.to, rev |-> [game_move |-> m, prev |-> b]]
board_reverse_move(b, rev) == rev.prev

\* --- Bounds ---
Bounds(p, d) == [phi |-> p, delta |-> d]
winning == Bounds(0, INFINITY)
losing == Bounds(INFINITY, 0)
infinity == Bounds(INFINITY, INFINITY)
root == Bounds(INFINITY \div 2, INFINITY \div 2)

min(a, b) == IF a < b THEN a ELSE b
\* u32::saturating_add; with at most MaxChildren children of at most
\* INFINITY each the sum stays far below u32::MAX
saturating_add(a, b) == a + b

\* --- Child ---
Child_new(bounds, game_move, zobrist) ==
    [bounds |-> bounds, game_move |-> game_move, zobrist |-> zobrist,
     best_child |-> USIZE_MAX]

\* HashMap::new
EmptyMap == [k \in {} |-> k]

\* HashMap::insert
Insert(table, key, value) ==
    [k \in DOMAIN table \cup {key} |-> IF k = key THEN value ELSE table[k]]

\* Child::update_best_child: the child and the replies table afterwards
update_best_child(self, best_child, game_move, table) ==
    [child |-> [self EXCEPT !.best_child = Usize(best_child)],
     table |-> Insert(table, self.zobrist, game_move)]

update_bounds_child_only(self, bounds, table) ==
    [child |-> [self EXCEPT !.bounds = bounds],
     table |-> table]

\* Child::update_bounds: the child and the bounds table afterwards
update_bounds(self, bounds, table) ==
    [child |-> [self EXCEPT !.bounds = bounds],
     table |-> Insert(table, self.zobrist, bounds)]

\* the loop of compute_bounds adding up the children's delta
RECURSIVE compute_bounds_loop_delta(_, _)
compute_bounds_loop_delta(children, out) ==
    IF children = <<>>
    THEN out
    ELSE LET ch == Head(children)
         IN  compute_bounds_loop_delta(Tail(children),
                 Bounds(min(out.phi, ch.bounds.delta),
                        saturating_add(out.delta, ch.bounds.delta)))

RECURSIVE compute_bounds_loop(_, _)
compute_bounds_loop(children, out) ==
    IF children = <<>>
    THEN out
    ELSE LET ch == Head(children)
         IN  compute_bounds_loop(Tail(children),
                 Bounds(min(out.phi, ch.bounds.delta),
                        saturating_add(out.delta, ch.bounds.phi)))

compute_bounds(children) ==
    LET out == compute_bounds_loop(children, Bounds(INFINITY, 0))
    IN  Bounds(out.phi, min(out.delta, INFINITY))

\* the loop of select_child from index idx (0-based) on
RECURSIVE select_child_loop(_, _, _, _, _)
select_child_loop(children, idx, c_best_idx, best, second_best) ==
    IF idx >= Len(children)
    THEN [best_idx |-> c_best_idx, second_best |-> second_best]
    ELSE LET child == children[idx + 1]
             better == child.bounds.delta < best.delta
             second == child.bounds.delta < second_best.delta
             c1 == IF better THEN idx ELSE c_best_idx
             s1 == IF better THEN best ELSE IF second THEN child.bounds ELSE second_best
             b1 == IF better THEN child.bounds ELSE best
         IN  IF child.bounds.phi = INFINITY
             THEN [best_idx |-> c1, second_best |-> s1]
             ELSE select_child_loop(children, idx + 1, c1, b1, s1)

\* the loop of select_child with <= for <: the last of equal children wins
RECURSIVE select_child_loop_last(_, _, _, _, _)
select_child_loop_last(children, idx, c_best_idx, best, second_best) ==
    IF idx >= Len(children)
    THEN [best_idx |-> c_best_idx, second_best |-> second_best]
    ELSE LET child == children[idx + 1]
             better == child.bounds.delta <= best.delta
             second == child.bounds.delta < second_best.delta
             c1 == IF better THEN idx ELSE c_best_idx
             s1 == IF better THEN best ELSE IF second THEN child.bounds ELSE second_best
             b1 == IF better THEN child.bounds ELSE best
         IN  IF child.bounds.phi = INFINITY
             THEN [best_idx |-> c1, second_best |-> s1]
             ELSE select_child_loop_last(children, idx + 1, c1, b1, s1)

select_child_last(children) ==
    select_child_loop_last(children, 1, 0, children[1].bounds, infinity)

select_child(children) ==
    select_child_loop(children, 1, 0, children[1].bounds, infinity)

\* --- TinueSearch ---
\* TopMoves
MAX_SIZE == 3
TopMoves_new == [moves |-> <<null_move, null_move, null_move>>, size |-> 0]
get_best(self) == SubSeq(self.moves, 1, self.size)
add_move(self, game_move) ==
    IF self.size = MAX_SIZE
    THEN self
    ELSE IF ~(\E i \in 1..MAX_SIZE : self.moves[i] = game_move)
         THEN [self EXCEPT !.moves[self.size + 1] = game_move, !.size = @ + 1]
         ELSE self

\* vec![TopMoves::new(); 100]: the length of top_moves
TOP_MOVES_LEN == 100
\* self.top_moves[index] does not panic
in_top_moves(index) == index < TOP_MOVES_LEN

\* self.top_moves[depth]: top_moves holds the entries that are no longer
\* TopMoves::new()
top_moves_at(self, depth) ==
    IF depth \in DOMAIN self.top_moves THEN self.top_moves[depth] ELSE TopMoves_new
\* self.top_moves[depth].add_move(m)
top_moves_add(self, depth, m) ==
    [self EXCEPT !.top_moves = Insert(@, depth, add_move(top_moves_at(self, depth), m))]
\* self.top_moves[depth].get_best() as it is passed on as a hint; the
\* reference search that C19 compares with passes the empty hint instead
hint_at(self, depth) ==
    IF run.hint_free THEN <<>> ELSE get_best(top_moves_at(self, depth))

TinueSearch_new(b) ==
    [board |-> b,
     top_moves |-> EmptyMap,
     bounds_table |-> EmptyMap,
     rev_moves |-> <<>>,
     attacker |-> board_side_to_move(b),
     nodes |-> 0,
     replies |-> EmptyMap,
     tinue_attempts |-> EmptyMap,
     tinue_cache_hits |-> 0,
     tinue_cache_misses |-> 0,
     zobrist_hist |-> <<>>,
     max_nodes |-> USIZE_MAX]

limit(self, max_nodes) == [self EXCEPT !.max_nodes = Usize(max_nodes)]

aborted_at_limit(self) == ~self.max_nodes.max /\ self.nodes >= self.max_nodes.n
aborted(self) == usize_gt(self.nodes, self.max_nodes)

\* the while loop of principal_variation from board b: it ends when replies
\* has no entry for the board; when a board comes up again it never ends
RECURSIVE pv_walk(_, _, _, _, _)
pv_walk(b, replies, pv, hist, seen) ==
    IF b \notin DOMAIN replies
    THEN [returns |-> TRUE, board |-> b, pv |-> pv, hist |-> hist]
    ELSE IF b \in seen
         THEN [returns |-> FALSE, board |-> b, pv |-> pv, hist |-> hist]
         ELSE LET game_move == replies[b]
                  d == board_do_move(b, game_move)
              IN  pv_walk(d.board, replies, Append(pv, game_move),
                          Append(hist, d.rev), seen \cup {b})

\* for rev_move in hist.into_iter().rev() { self.board.reverse_move(rev_move) }
RECURSIVE pv_unwind(_, _)
pv_unwind(b, hist) ==
    IF hist = <<>> THEN b
    ELSE pv_unwind(board_reverse_move(b, hist[Len(hist)]), SubSeq(hist, 1, Len(hist) - 1))

principal_variation_no_unwind(self) ==
    LET w == pv_walk(self.board, self.replies, <<>>, <<>>, {})
    IN  [search |-> [self EXCEPT !.board = w.board],
         returns |-> w.returns,
         pv |-> w.pv]

\* TinueSearch::principal_variation: the search afterwards, whether the call
\* returns, and the Vec returned
principal_variation(self) ==
    LET w == pv_walk(self.board, self.replies, <<>>, <<>>, {})
    IN  [search |-> [self EXCEPT !.board = IF w.returns
                                           THEN pv_unwind(w.board, w.hist)
                                           ELSE w.board],
         returns |-> w.returns,
         pv |-> w.pv]

Contains_first(seq, x) == seq # <<>> /\ seq[1] = x

Contains(seq, x) == \E i \in 1..Len(seq) : seq[i] = x

undo_move_keep_board(self) ==
    IF self.rev_moves = <<>>
    THEN self
    ELSE [self EXCEPT
             !.rev_moves = SubSeq(@, 1, Len(@) - 1),
             !.zobrist_hist = SubSeq(@, 1, Len(@) - 1)]

\* rev_moves.pop()? returns early when there is no move to undo (the root)
undo_move(self) ==
    IF self.rev_moves = <<>>
    THEN self
    ELSE LET m == self.rev_moves[Len(self.rev_moves)]
         IN  [self EXCEPT
                 !.rev_moves = SubSeq(@, 1, Len(@) - 1),
                 !.board = board_reverse_move(self.board, m),
                 !.zobrist_hist = SubSeq(@, 1, Len(@) - 1)]

RECURSIVE add_moves(_, _, _)
add_moves(self, depth, moves) ==
    IF moves = <<>> THEN self
    ELSE add_moves(top_moves_add(self, depth, Head(moves)), depth, Tail(moves))

\* the panic of an index into top_moves that is out of bounds
OutOfBounds == [kind |-> "out_of_bounds", moves |-> <<>>, road |-> null_move]

tinue_evaluate_trust_hint(self, depth) ==
    LET m == IF hint_at(self, depth) # <<>>
             THEN hint_at(self, depth)[1]
             ELSE can_make_road_hint(self.board, hint_at(self, depth))
    IN  IF m # null_move
        THEN [search |-> top_moves_add(self, depth, m),
              outcome |-> [kind |-> "HasRoad", moves |-> <<>>, road |-> m]]
        ELSE LET tak_threats == get_tak_threats(self.board, hint_at(self, depth + 2))
             IN  IF tak_threats = <<>>
                 THEN [search |-> self,
                       outcome |-> [kind |-> "NoTakThreats", moves |-> <<>>,
                                    road |-> null_move]]
                 ELSE [search |-> add_moves(self, depth + 2, tak_threats),
                       outcome |-> [kind |-> "TakThreats", moves |-> tak_threats,
                                    road |-> null_move]]

\* tinue_evaluate: the search afterwards (top_moves may gain moves) and the
\* AttackerOutcome of the position on the board
tinue_evaluate(self, depth) ==
    IF ~in_top_moves(depth)
    THEN [search |-> self, outcome |-> OutOfBounds]
    ELSE
    LET m == can_make_road_hint(self.board, hint_at(self, depth))
    IN  IF m # null_move
        THEN [search |-> top_moves_add(self, depth, m),
              outcome |-> [kind |-> "HasRoad", moves |-> <<>>, road |-> m]]
        ELSE IF ~in_top_moves(depth + 2)
        THEN [search |-> self, outcome |-> OutOfBounds]
        ELSE LET tak_threats == get_tak_threats(self.board, hint_at(self, depth + 2))
             IN  IF tak_threats = <<>>
                 THEN [search |-> self,
                       outcome |-> [kind |-> "NoTakThreats", moves |-> <<>>,
                                    road |-> null_move]]
                 ELSE [search |-> add_moves(self, depth + 2, tak_threats),
                       outcome |-> [kind |-> "TakThreats", moves |-> tak_threats,
                                    road |-> null_move]]

\* the stack moves among the moves generated in b: what can_make_road leaves
\* in the move list
RECURSIVE stack_moves_of(_)
stack_moves_of(moves) ==
    IF moves = <<>> THEN <<>>
    ELSE IF Head(moves).is_stack_move
         THEN <<Head(moves)>> \o stack_moves_of(Tail(moves))
         ELSE stack_moves_of(Tail(moves))

\* defender_responses(board, hint): the DefenderOutcome of the position, or
\* the panic of assert!(moves.len() > 0) when can_make_road found no road
\* and left no stack move
defender_responses(b, hint) ==
    LET m == can_make_road_hint(b, hint)
    IN  IF m # null_move
        THEN [kind |-> "CanWin", moves |-> <<>>, road |-> m]
        ELSE IF ~(Len(stack_moves_of(board_moves(b))) > 0)
             THEN [kind |-> "panic", moves |-> <<>>, road |-> null_move]
             ELSE [kind |-> "Defenses", moves |-> board_moves(b), road |-> null_move]

\* --- defender_responses on the moves themselves ---
\* GameMove: a placement of a piece on a square, or a stack move
from_placement(piece, sq) == [kind |-> "place", piece |-> piece, sq |-> sq]
StackMove(id) == [kind |-> "stack", id |-> id]
is_place_move(m) == m.kind = "place"
place_piece(m) == m.piece
src_index(m) == m.sq
is_blocker(p) == is_wall(p) \/ is_cap(p)
swap_color(p) ==
    IF is_flat(p) THEN flat(other(owner(p)))
    ELSE IF is_wall(p) THEN wall(other(owner(p))) ELSE cap(other(owner(p)))

\* moves.into_iter().filter(|m| !m.is_place_move() || m.place_piece().is_blocker())
RECURSIVE filter_blockers(_)
filter_blockers(moves) ==
    IF moves = <<>> THEN <<>>
    ELSE IF ~is_place_move(Head(moves)) \/ is_blocker(place_piece(Head(moves)))
         THEN <<Head(moves)>> \o filter_blockers(Tail(moves))
         ELSE filter_blockers(Tail(moves))

defender_responses_moves_keep_flats(stack_moves, road, place_moves, placement) ==
    IF road # <<>>
    THEN [kind |-> "CanWin", moves |-> <<>>, road |-> road]
    ELSE IF ~(Len(stack_moves) > 0)
         THEN [kind |-> "panic", moves |-> <<>>, road |-> <<>>]
         ELSE LET moves == stack_moves \o place_moves
              IN  [kind |-> "Defenses",
                   moves |-> IF placement # <<>>
                             THEN LET attack == placement[1]
                                      sq == src_index(attack)
                                      piece == swap_color(place_piece(attack))
                                  IN  Append(moves, from_placement(piece, sq))
                             ELSE moves,
                   road |-> <<>>]

\* defender_responses, given what its callees return: the stack moves that
\* can_make_road leaves in moves and the Option it returns, the moves that
\* generate_all_place_moves appends, and the Option of find_placement_road
\* (an Option is <<>> or <<m>>); the assert fails without a stack move
defender_responses_moves(stack_moves, road, place_moves, placement) ==
    IF road # <<>>
    THEN [kind |-> "CanWin", moves |-> <<>>, road |-> road]
    ELSE IF ~(Len(stack_moves) > 0)
         THEN [kind |-> "panic", moves |-> <<>>, road |-> <<>>]
         ELSE LET moves == filter_blockers(stack_moves \o place_moves)
              IN  [kind |-> "Defenses",
                   moves |-> IF placement # <<>>
                             THEN LET attack == placement[1]
                                      sq == src_index(attack)
                                      piece == swap_color(place_piece(attack))
                                  IN  Append(moves, from_placement(piece, sq))
                             ELSE moves,
                   road |-> <<>>]

\* init_pns without the repetition guard: every child is kept
init_pns_keep_repeats(self, game_move, depth) ==
    LET attacker == board_side_to_move(self.board) = self.attacker
        done == board_do_move(self.board, game_move)
        hash == done.board
        default_bounds ==
            IF attacker
            THEN Bounds(1, 30 + depth * depth)
            ELSE IF game_move.is_stack_move
                 THEN Bounds(10 + depth * depth, 1)
                 ELSE Bounds(20 + depth * depth, 1)
        table == IF hash \in DOMAIN self.bounds_table
                 THEN self.bounds_table
                 ELSE Insert(self.bounds_table, hash, default_bounds)
        child == Child_new(table[hash], game_move, hash)
    IN  [search |-> [self EXCEPT !.bounds_table = table,
                                 !.board = board_reverse_move(done.board, done.rev)],
         some |-> TRUE,
         child |-> child]

init_pns_overwrite(self, game_move, depth) ==
    LET attacker == board_side_to_move(self.board) = self.attacker
        done == board_do_move(self.board, game_move)
        hash == done.board
        default_bounds ==
            IF attacker
            THEN Bounds(1, 30 + depth * depth)
            ELSE IF game_move.is_stack_move
                 THEN Bounds(10 + depth * depth, 1)
                 ELSE Bounds(20 + depth * depth, 1)
        table == Insert(self.bounds_table, hash, default_bounds)
        child == Child_new(table[hash], game_move, hash)
    IN  [search |-> [self EXCEPT !.bounds_table = table,
                                 !.board = board_reverse_move(done.board, done.rev)],
         some |-> ~(attacker /\ Contains(self.zobrist_hist, hash)),
         child |-> child]

\* init_pns: the search afterwards (the table may gain an entry) and the
\* Option<Child> returned
init_pns(self, game_move, depth) ==
    LET attacker == board_side_to_move(self.board) = self.attacker
        done == board_do_move(self.board, game_move)
        hash == done.board
        default_bounds ==
            IF attacker
            THEN Bounds(1, 30 + depth * depth)
            ELSE IF game_move.is_stack_move
                 THEN Bounds(10 + depth * depth, 1)
                 ELSE Bounds(20 + depth * depth, 1)
        table == IF hash \in DOMAIN self.bounds_table
                 THEN self.bounds_table
                 ELSE Insert(self.bounds_table, hash, default_bounds)
        child == Child_new(table[hash], game_move, hash)
    IN  [search |-> [self EXCEPT !.bounds_table = table,
                                 !.board = board_reverse_move(done.board, done.rev)],
         some |-> ~(attacker /\ Contains(self.zobrist_hist, hash)),
         child |-> child]

\* moves.into_iter().filter_map(|m| self.init_pns(m, depth)).collect()
RECURSIVE init_children(_, _, _, _)
init_children(self, moves, depth, acc) ==
    IF moves = <<>>
    THEN [search |-> self, child_pns |-> acc]
    ELSE LET r == init_pns(self, Head(moves), depth)
         IN  init_children(r.search, Tail(moves), depth,
                           IF r.some THEN Append(acc, r.child) ELSE acc)

(***************************************************************************)
(* The searches of bounded games.  The recursion of mid is kept as a stack *)
(* of frames: each holds the Child the invocation was given, its depth,    *)
(* its child_pns and the point it has reached.                             *)
(***************************************************************************)
NodeMoves(side, moves) ==
    [side |-> side, terminal |-> FALSE, road |-> FALSE, moves |-> moves]
NodeRoad(side) ==
    [side |-> side, terminal |-> FALSE, road |-> TRUE, moves |-> <<>>]
NodeTerminal(side) ==
    [side |-> side, terminal |-> TRUE, road |-> FALSE, moves |-> <<>>]

\* the bounded games: the attacker (White) is to move in A0..A2, the
\* defender in D0..D3; each position is one of a few kinds, and a defence
\* may lead back to the root position.  The defences are stack moves and
\* placements; in one kind of D2 the defender has a placement only (it
\* controls no stack that can move)
GameGraphs ==
    { [A0 |-> a0, A1 |-> a1, A2 |-> a2, D0 |-> d0, D1 |-> d1, D2 |-> d2, D3 |-> d3] :
      a0 \in { NodeMoves("White", <<GameMove("D1", FALSE), GameMove("D2", FALSE)>>),
               NodeMoves("White", <<GameMove("D3", FALSE), GameMove("D1", FALSE),
                                    GameMove("D2", FALSE)>>),
               NodeMoves("White", <<GameMove("D1", FALSE)>>),
               NodeRoad("White"), NodeMoves("White", <<>>), NodeTerminal("White") },
      a1 \in { NodeMoves("White", <<GameMove("D0", FALSE), GameMove("D3", FALSE)>>),
               NodeMoves("White", <<GameMove("D3", FALSE)>>),
               NodeMoves("White", <<>>) },
      a2 \in { NodeRoad("White"), NodeMoves("White", <<>>), NodeTerminal("White") },
      d0 \in { NodeMoves("Black", <<GameMove("A0", TRUE)>>),
               NodeMoves("Black", <<GameMove("A2", FALSE), GameMove("A0", TRUE)>>),
               NodeRoad("Black"), NodeTerminal("Black") },
      d1 \in { NodeMoves("Black", <<GameMove("A1", TRUE)>>),
               NodeMoves("Black", <<GameMove("A2", TRUE)>>),
               NodeMoves("Black", <<GameMove("A2", TRUE), GameMove("A1", TRUE)>>) },
      d2 \in { NodeMoves("Black", <<GameMove("A1", TRUE)>>),
               NodeMoves("Black", <<GameMove("A2", FALSE)>>) },
      d3 \in { NodeMoves("Black", <<GameMove("A2", TRUE)>>), NodeRoad("Black") } }

\* a game with one long line: the root A0 has the single tak threat L1, the
\* defender in L1 the single stack move to L2, and so on down to
\* L<MaxLadder>, where the side to move has no road (and the attacker no
\* tak threat); the position Lk is searched at depth k
MaxLadder == 98
LadderNames ==
    <<
       "L1", "L2", "L3", "L4", "L5", "L6", "L7", "L8", "L9", "L10", "L11",
       "L12", "L13", "L14", "L15", "L16", "L17", "L18", "L19", "L20",
       "L21", "L22", "L23", "L24", "L25", "L26", "L27", "L28", "L29",
       "L30", "L31", "L32", "L33", "L34", "L35", "L36", "L37", "L38",
       "L39", "L40", "L41", "L42", "L43", "L44", "L45", "L46", "L47",
       "L48", "L49", "L50", "L51", "L52", "L53", "L54", "L55", "L56",
       "L57", "L58", "L59", "L60", "L61", "L62", "L63", "L64", "L65",
       "L66", "L67", "L68", "L69", "L70", "L71", "L72", "L73", "L74",
       "L75", "L76", "L77", "L78", "L79", "L80", "L81", "L82", "L83",
       "L84", "L85", "L86", "L87", "L88", "L89", "L90", "L91", "L92",
       "L93", "L94", "L95", "L96", "L97", "L98", "L99", "L100" >>
LadderIndex(p) == CHOOSE k \in 1..Len(LadderNames) : LadderNames[k] = p
LadderGame ==
    [p \in {"A0", "A1", "A2", "D0", "D1", "D2", "D3"}
            \cup { LadderNames[k] : k \in 1..MaxLadder } |->
        IF p = "A0" THEN NodeMoves("White", <<GameMove(LadderNames[1], FALSE)>>)
        ELSE IF p \in {"A1", "A2"} THEN NodeTerminal("White")
        ELSE IF p \in {"D0", "D1", "D2", "D3"} THEN NodeTerminal("Black")
        ELSE LET k == LadderIndex(p)
                 side == IF k % 2 = 1 THEN "Black" ELSE "White"
             IN  IF k = MaxLadder
                 THEN IF side = "White" THEN NodeMoves("White", <<>>) ELSE NodeRoad("Black")
                 ELSE NodeMoves(side, <<GameMove(LadderNames[k + 1], side = "Black")>>)]

NoPv == [called |-> FALSE, returned |-> FALSE, pv |-> <<>>, before |-> <<>>]

NewRun ==
    [phase |-> "new", index |-> 1, result |-> "-", root |-> <<>>,
     touched |-> FALSE, cap_fired |-> FALSE, first |-> <<>>, hint_free |-> FALSE]

SearchIdle ==
    /\ game = [root |-> "A0", graph |-> [A0 |-> NodeTerminal("White")]]
    /\ search = TinueSearch_new(game.root)
    /\ frames = <<>>
    /\ run = NewRun
    /\ pvCall = NoPv

\* let mut search = TinueSearch::new(board)
SearchInit ==
    /\ game \in { [root |-> "A0", graph |-> g] : g \in GameGraphs \cup {LadderGame} }
    /\ search = TinueSearch_new(game.root)
    /\ frames = <<>>
    /\ run = NewRun
    /\ pvCall = NoPv

Top == frames[Len(frames)]

mid_enter_no_rev(self, child) ==
    LET s1 == [self EXCEPT !.nodes = @ + 1]
        s2 == IF child.game_move # null_move
              THEN [s1 EXCEPT !.board = board_do_move(s1.board, child.game_move).board]
              ELSE s1
    IN  [s2 EXCEPT !.zobrist_hist = Append(@, s2.board)]

\* the start of mid past the node-budget check: the node is counted, the
\* child's move is made and the hash pushed
mid_enter(self, child) ==
    LET s1 == [self EXCEPT !.nodes = @ + 1]
        s2 == IF child.game_move # null_move
              THEN LET d == board_do_move(s1.board, child.game_move)
                   IN  [s1 EXCEPT !.board = d.board,
                                  !.rev_moves = Append(@, d.rev)]
              ELSE s1
    IN  [s2 EXCEPT !.zobrist_hist = Append(@, s2.board)]

attacker_outcome_no_lookup(self, depth) ==
    LET e == tinue_evaluate([self EXCEPT !.tinue_cache_misses = @ + 1], depth)
    IN  [search |-> [e.search EXCEPT
                        !.tinue_attempts = Insert(@, self.board, e.outcome)],
         outcome |-> e.outcome]

\* the tinue_attempts lookup of mid: the search afterwards and the outcome
attacker_outcome(self, depth) ==
    IF self.board \in DOMAIN self.tinue_attempts
    THEN [search |-> [self EXCEPT !.tinue_cache_hits = @ + 1],
          outcome |-> self.tinue_attempts[self.board]]
    ELSE LET e == tinue_evaluate([self EXCEPT !.tinue_cache_misses = @ + 1], depth)
         IN  [search |-> IF e.outcome = OutOfBounds
                         THEN e.search
                         ELSE [e.search EXCEPT
                                  !.tinue_attempts = Insert(@, self.board, e.outcome)],
              outcome |-> e.outcome]

\* the outcome of the position mid has entered, for either side
mid_outcome(self, depth) ==
    IF board_side_to_move(self.board) = self.attacker
    THEN attacker_outcome(self, depth)
    ELSE LET outcome == defender_responses(self.board, hint_at(self, depth))
         IN  IF outcome.kind = "CanWin" /\ ~in_top_moves(depth)
             THEN [search |-> self, outcome |-> OutOfBounds]
             ELSE [search |-> IF outcome.kind = "CanWin"
                              THEN top_moves_add(self, depth, outcome.road)
                              ELSE self,
                   outcome |-> outcome]

\* mid returns: child is the &mut Child of the caller's child_pns
mid_return(fs, child) ==
    IF Len(fs) = 1
    THEN <<>>
    ELSE LET parent == fs[Len(fs) - 1]
         IN  Append(SubSeq(fs, 1, Len(fs) - 2),
                    [parent EXCEPT !.child_pns[parent.child.best_child.n + 1] = child])

\* is_tinue gets its root Child back when the outermost mid returns
run_after_return(r, fs, child) ==
    IF Len(fs) = 1
    THEN [r EXCEPT !.phase = "returned", !.root = child]
    ELSE r

Searching == run.phase = "searching" /\ frames # <<>>
OverBudget == usize_gt(search.nodes + 1, search.max_nodes)
Entering == Searching /\ Top.pc = "enter" /\ ~OverBudget
Entered == mid_enter(search, Top.child)
Looping == Searching /\ Top.pc = "loop"
MovedRun == [run EXCEPT !.touched = @ \/ Top.child.game_move # null_move]

\* child.update_bounds(eval); self.undo_move(); return
MidLeave(self, eval, r) ==
    LET u == update_bounds(Top.child, eval, self.bounds_table)
    IN  /\ search' = undo_move([self EXCEPT !.bounds_table = u.table])
        /\ frames' = mid_return(frames, u.child)
        /\ run' = run_after_return(r, frames, u.child)
        /\ UNCHANGED <<auxVars, pvCall, game, bitVars, stackVars, boardVars>>

(***************************************************************************)
(* The road check and pop_lowest, applied to bounded inputs.               *)
(***************************************************************************)
\* the test vectors of bitboard.rs (test::bitboard_road, test::pop_lowest)
RoadTestVectors ==
    { new(U64(<<0, 126, 64, 60, 16, 32, 0, 0>>)),          \* 0x20103c407e00
      new(U64(<<0, 110, 68, 60, 48, 32, 32, 0>>)),         \* 0x2020303c446e00
      new(U64(<<255, 255, 255, 255, 255, 255, 255, 255>>)),\* 0xffffffffffffffff
      new(U64(<<0, 110, 64, 60, 16, 32, 0, 0>>)),          \* 0x20103c406e00
      new(U64(<<0, 98, 68, 52, 60, 36, 66, 0>>)),          \* 0x42243c34446200
      new({}) }
PopTestVector == new(U64(<<0, 126, 0, 60, 16, 32, 0, 0>>)) \* 0x20103c007e00

\* squares a bounded check_road input is grown over: the two middle rows and
\* the two middle files of the board (20 squares), so that roads in both
\* directions, bends, dead ends and components on no seeded edge all occur
RoadRegion == { b \in INNER : (b \div 8) \in {3, 4} \/ (b % 8) \in {3, 4} }

NoRoadOut == [called |-> FALSE, ret |-> FALSE]

RoadIdle == roadIn = {} /\ roadOut = NoRoadOut
PopIdle == popIn = {} /\ popBits = {} /\ popRet = <<>>
NoUndo == [active |-> FALSE, rev |-> <<>>, before |-> <<>>, panic |-> FALSE]
BoardIdle ==
    /\ board = InitialBoard
    /\ revs = <<>>
    /\ snaps = <<>>
    /\ undone = NoUndo
StackIdle ==
    /\ stk = [data |-> <<>>, index |-> 0]
    /\ bits = EmptyStorage
    /\ stkPanic = FALSE

BitsIdle == bb = [a |-> {}, b |-> {}, n |-> 0, op |-> "new", arg |-> {}]
NoSquare == [idx |-> 0, bit |-> {}, set |-> FALSE]
IterIdle ==
    bitIter = [bits |-> {}, from |-> {}, last |-> NoSquare, started |-> FALSE,
            out |-> <<>>, panic |-> FALSE]
NoCall ==
    [op |-> "none", phase |-> 0, top_n |-> 0,
     stk0 |-> [data |-> <<>>, index |-> 0], bits0 |-> EmptyStorage,
     vec |-> <<>>, ok |-> FALSE]
CallIdle == stkCall = NoCall
ExecIdle ==
    exec = [fn |-> "none", phase |-> "idle", requested |-> <<>>, made |-> <<>>,
            before |-> 0, n |-> 0]
NoOutcome == [kind |-> "none", moves |-> <<>>, road |-> <<>>]
DefendIdle ==
    dresp = [phase |-> "idle", side |-> "White", stack_moves |-> <<>>, road |-> <<>>,
             place_moves |-> <<>>, placement |-> <<>>, out |-> NoOutcome]
ViewIdle ==
    view = [board |-> <<>>, expand |-> {}, view_hist |-> <<>>, created |-> <<>>,
            last |-> "idle", n |-> 0, legal |-> TRUE]
AuxIdle == BitsIdle /\ IterIdle /\ CallIdle /\ ExecIdle /\ DefendIdle /\ ViewIdle

RoadInit == roadIn \in RoadTestVectors /\ roadOut = NoRoadOut

\* the caller sets one more square of the bitboard (Bitboard6::index_to_bit, |=)
RoadAddSquare ==
    /\ Cardinality(roadIn) < MaxRoadSquares
    /\ \E b \in RoadRegion \ roadIn :
          roadIn' = bitor_assign(roadIn, {b})
    /\ roadOut' = NoRoadOut
    /\ UNCHANGED <<auxVars, popIn, popBits, popRet, stackVars, boardVars, searchVars>>

\* the caller asks whether the bitboard holds a road
RoadCheck ==
    /\ ~roadOut.called
    /\ roadOut' = [called |-> TRUE, ret |-> check_road(roadIn)]
    /\ UNCHANGED <<auxVars, roadIn, popIn, popBits, popRet, stackVars, boardVars, searchVars>>

RoadNext == RoadAddSquare \/ RoadCheck

InitRoad == RoadInit /\ PopIdle /\ StackIdle /\ BoardIdle /\ SearchIdle /\ AuxIdle

SpecRoad == InitRoad /\ [][RoadNext]_vars

PopInit ==
    /\ popIn \in {new({}), PopTestVector}
    /\ popBits = popIn
    /\ popRet = <<>>

\* before the loop starts, the caller sets one more square of the bitboard
PopAddSquare ==
    /\ popRet = <<>>
    /\ Cardinality(popIn) < MaxPopSquares
    /\ \E b \in INNER \ popIn :
          /\ popIn' = bitor_assign(popIn, {b})
          /\ popBits' = bitor_assign(popIn, {b})
    /\ UNCHANGED <<auxVars, roadIn, roadOut, popRet, stackVars, boardVars, searchVars>>

\* one call of pop_lowest on the bitboard; one call more than there are bits
\* is allowed, so that the call on the empty bitboard happens
PopLowest ==
    /\ Len(popRet) <= Cardinality(popIn)
    /\ LET p == pop_lowest(popBits)
       IN  /\ popBits' = p.rest
           /\ popRet' = Append(popRet, p.ret)
    /\ UNCHANGED <<auxVars, roadIn, roadOut, popIn, stackVars, boardVars, searchVars>>

PopNext == PopAddSquare \/ PopLowest

InitPop == PopInit /\ RoadIdle /\ StackIdle /\ BoardIdle /\ SearchIdle /\ AuxIdle

SpecPop == InitPop /\ [][PopNext]_vars

(***************************************************************************)
(* Two Bitboard6 values under arbitrary sequences of the operators of      *)
(* bitboard.rs.  Every value starts from Bitboard6::new or                 *)
(* Bitboard6::default.                                                     *)
(***************************************************************************)
\* the u64 given to Bitboard6::new: the test vectors, all ones, only border
\* bits (0x8181818181818181), the corner squares a1/f6 with border bits next
\* to them (0x00c0000000000300), and zero
BitsSeeds ==
    { U64(<<0, 126, 0, 60, 16, 32, 0, 0>>),
      U64(<<255, 255, 255, 255, 255, 255, 255, 255>>),
      U64(<<129, 129, 129, 129, 129, 129, 129, 129>>),
      U64(<<0, 3, 0, 0, 0, 0, 192, 0>>),
      {} }

\* the square indices given to index_to_bit: the four corners and one inside
BitsIndices == {0, 5, 30, 35, 14}

BitsInit ==
    \E d \in BitsSeeds :
        bb = [a |-> new(d), b |-> {}, n |-> 0, op |-> "new", arg |-> {}]

\* the two values after one more operator: op names it, arg is the bitboard
\* that adjacent() was called on
BitsAfter(a, b, op, arg) ==
    [a |-> a, b |-> b, n |-> bb.n + 1, op |-> op, arg |-> arg]

\* a = a & b,  b = b & a
BitsAnd ==
    /\ bb.n < MaxOps
    /\ bb' \in { BitsAfter(bitand(bb.a, bb.b), bb.b, "&", {}),
                 BitsAfter(bb.a, bitand(bb.b, bb.a), "&", {}) }
    /\ UNCHANGED exceptBb

\* a = a | b,  b = b | a
BitsOr ==
    /\ bb.n < MaxOps
    /\ bb' \in { BitsAfter(bitor(bb.a, bb.b), bb.b, "|", {}),
                 BitsAfter(bb.a, bitor(bb.b, bb.a), "|", {}) }
    /\ UNCHANGED exceptBb

\* a = !a,  b = !b
BitsNot ==
    /\ bb.n < MaxOps
    /\ bb' \in { BitsAfter(not(bb.a), bb.b, "!", {}),
                 BitsAfter(bb.a, not(bb.b), "!", {}) }
    /\ UNCHANGED exceptBb

\* a |= b,  b |= a
BitsOrAssign ==
    /\ bb.n < MaxOps
    /\ bb' \in { BitsAfter(bitor_assign(bb.a, bb.b), bb.b, "|=", {}),
                 BitsAfter(bb.a, bitor_assign(bb.b, bb.a), "|=", {}) }
    /\ UNCHANGED exceptBb

\* a &= b,  b &= a
BitsAndAssign ==
    /\ bb.n < MaxOps
    /\ bb' \in { BitsAfter(bitand_assign(bb.a, bb.b), bb.b, "&=", {}),
                 BitsAfter(bb.a, bitand_assign(bb.b, bb.a), "&=", {}) }
    /\ UNCHANGED exceptBb

\* b = a.adjacent()
BitsAdjacent ==
    /\ bb.n < MaxOps
    /\ bb' = BitsAfter(bb.a, adjacent(bb.a), "adjacent", bb.a)
    /\ UNCHANGED exceptBb

\* b = a.pop_lowest()
BitsPopLowest ==
    /\ bb.n < MaxOps
    /\ LET p == pop_lowest(bb.a)
       IN  bb' = BitsAfter(p.rest, p.ret, "pop_lowest", {})
    /\ UNCHANGED exceptBb

\* b = Bitboard6::index_to_bit(idx)
BitsIndexToBit ==
    /\ bb.n < MaxOps
    /\ \E idx \in BitsIndices :
          bb' = BitsAfter(bb.a, index_to_bit(idx), "index_to_bit", {})
    /\ UNCHANGED exceptBb

BitsNext ==
    \/ BitsAnd
    \/ BitsOr
    \/ BitsNot
    \/ BitsOrAssign
    \/ BitsAndAssign
    \/ BitsAdjacent
    \/ BitsPopLowest
    \/ BitsIndexToBit

InitBits ==
    BitsInit /\ RoadIdle /\ PopIdle /\ StackIdle /\ BoardIdle /\ SearchIdle /\ IterIdle /\ CallIdle /\ ExecIdle /\ DefendIdle /\ ViewIdle

SpecBits == InitBits /\ [][BitsNext]_vars

(***************************************************************************)
(* A BitIndexIterator over a bitboard built square by square, as           *)
(* BitboardStorage::build_6 builds the bitboards of a colour.              *)
(***************************************************************************)
\* the bitboards iteration starts from: empty, or every square occupied
IterInit ==
    \E d \in {{}, not({})} :
        bitIter = [bits |-> d, from |-> {}, last |-> NoSquare, started |-> FALSE,
                out |-> <<>>, panic |-> FALSE]

\* build_6: storage |= T::index_to_bit(idx) for a square that holds a stack
IterAddSquare ==
    /\ ~bitIter.started
    /\ Cardinality(bitIter.bits) < MaxIterSquares
    /\ \E idx \in 0..(BoardSize * BoardSize - 1) :
          /\ index_to_bit(idx) \cap bitIter.bits = {}
          /\ bitIter' = [bitIter EXCEPT
                 !.bits = bitor_assign(bitIter.bits, index_to_bit(idx)),
                 !.last = [idx |-> idx, bit |-> index_to_bit(idx), set |-> TRUE]]
    /\ UNCHANGED exceptIter

\* iter_stacks: BitIndexIterator { bits }
IterStacks ==
    /\ ~bitIter.started
    /\ bitIter' = [bitIter EXCEPT !.started = TRUE, !.from = bitIter.bits,
                             !.last = NoSquare]
    /\ UNCHANGED exceptIter

\* one call of next(); it is called until it has returned None once
IterNextItem ==
    /\ bitIter.started
    /\ ~bitIter.panic
    /\ \A i \in 1..Len(bitIter.out) : bitIter.out[i].some
    /\ LET r == next(bitIter.bits)
       IN  bitIter' = [bitIter EXCEPT !.bits = r.bits,
                                !.out = IF r.panic THEN @ ELSE Append(@, r.item),
                                !.panic = r.panic]
    /\ UNCHANGED exceptIter

IterNext == IterAddSquare \/ IterStacks \/ IterNextItem

InitIter ==
    IterInit /\ RoadIdle /\ PopIdle /\ StackIdle /\ BoardIdle /\ SearchIdle /\ BitsIdle /\ CallIdle /\ ExecIdle /\ DefendIdle /\ ViewIdle

SpecIter == InitIter /\ [][IterNext]_vars

(***************************************************************************)
(* One Stack of an empty board under arbitrary sequences of its            *)
(* operations.                                                             *)
(***************************************************************************)
\* the square the Stack sits on (Stack::init): the first and the last square
StackIndices == {0, 35}

StackInit ==
    /\ stk \in { [data |-> <<>>, index |-> i] : i \in StackIndices }
    /\ bits = EmptyStorage
    /\ stkPanic = FALSE

\* no operation follows a panic
StackRunning == ~stkPanic

StackPush ==
    /\ StackRunning
    /\ len(stk) < MaxHeight
    /\ \E item \in Piece :
          LET r == push(stk, item, bits)
          IN  /\ stk' = r.st
              /\ bits' = r.b
              /\ stkPanic' = FALSE
    /\ UNCHANGED <<auxVars, bitVars, boardVars, searchVars>>

StackPop ==
    /\ StackRunning
    /\ LET r == pop(stk, bits)
       IN  /\ stk' = r.st
           /\ bits' = r.b
           /\ stkPanic' = FALSE
    /\ UNCHANGED <<auxVars, bitVars, boardVars, searchVars>>

StackExtend ==
    /\ StackRunning
    /\ len(stk) + 2 <= MaxHeight
    /\ \E p1 \in Piece, p2 \in Piece :
          LET r == extend(stk, <<p1, p2>>, bits)
          IN  /\ stk' = r.st
              /\ bits' = r.b
              /\ stkPanic' = FALSE
    /\ UNCHANGED <<auxVars, bitVars, boardVars, searchVars>>

StackSplitOff ==
    /\ StackRunning
    /\ \E top_n \in 0..len(stk) :
          LET r == split_off(stk, top_n, bits)
          IN  /\ stk' = r.st
              /\ bits' = r.b
              /\ stkPanic' = FALSE
    /\ UNCHANGED <<auxVars, bitVars, boardVars, searchVars>>

StackReverseTop ==
    /\ StackRunning
    /\ \E top_n \in 0..len(stk) :
          LET r == reverse_top(stk, top_n, bits)
          IN  /\ stk' = r.st
              /\ bits' = r.b
              /\ stkPanic' = FALSE
    /\ UNCHANGED <<auxVars, bitVars, boardVars, searchVars>>

StackTryCrushWall ==
    /\ StackRunning
    /\ LET r == try_crush_wall(stk)
       IN  /\ stk' = r.st
           /\ stkPanic' = FALSE
    /\ UNCHANGED <<auxVars, bits, bitVars, boardVars, searchVars>>

StackUncrushWall ==
    /\ StackRunning
    /\ LET r == uncrush_wall(stk)
       IN  /\ stk' = r.st
           /\ stkPanic' = r.panic
    /\ UNCHANGED <<auxVars, bits, bitVars, boardVars, searchVars>>

StackNext ==
    \/ StackPush
    \/ StackPop
    \/ StackExtend
    \/ StackSplitOff
    \/ StackReverseTop
    \/ StackTryCrushWall
    \/ StackUncrushWall

InitStack == StackInit /\ RoadIdle /\ PopIdle /\ BoardIdle /\ SearchIdle /\ AuxIdle

SpecStack == InitStack /\ [][StackNext]_vars

(***************************************************************************)
(* One Stack, built by extend (and possibly a crush), on which one Stack   *)
(* operation is called and then the operation that undoes it.  stkCall     *)
(* keeps the operation, its argument, its return value and the Stack and   *)
(* storage it was called on.                                               *)
(***************************************************************************)
PieceVecs == UNION { [1..n -> Piece] : n \in 0..MaxCallHeight }

\* Stack::init, extend, and for some stacks try_crush_wall
CallInit ==
    /\ stkCall = NoCall
    /\ stkPanic = FALSE
    /\ \E i \in StackIndices, v \in PieceVecs, crushed \in BOOLEAN :
          LET r == extend([data |-> <<>>, index |-> i], v, EmptyStorage)
          IN  /\ stk = IF crushed THEN try_crush_wall(r.st).st ELSE r.st
              /\ bits = r.b

Called(op, top_n, vec, ok) ==
    [op |-> op, phase |-> 1, top_n |-> top_n, stk0 |-> stk, bits0 |-> bits,
     vec |-> vec, ok |-> ok]

\* vec = stack.split_off(top_n, bits)
CallSplitOff ==
    /\ stkCall.phase = 0
    /\ \E top_n \in 0..len(stk) :
          LET r == split_off(stk, top_n, bits)
          IN  /\ stk' = r.st
              /\ bits' = r.b
              /\ stkCall' = Called("split_off", top_n, r.ret, FALSE)
    /\ UNCHANGED <<stkPanic, exceptCall>>

\* stack.extend(vec, bits) with the Vec split_off returned
CallExtend ==
    /\ stkCall.phase = 1
    /\ stkCall.op = "split_off"
    /\ LET r == extend(stk, stkCall.vec, bits)
       IN  /\ stk' = r.st
           /\ bits' = r.b
    /\ stkCall' = [stkCall EXCEPT !.phase = 2]
    /\ UNCHANGED <<stkPanic, exceptCall>>

\* stack.reverse_top(top_n, bits)
CallReverseTop ==
    /\ stkCall.phase = 0
    /\ \E top_n \in 0..len(stk) :
          LET r == reverse_top(stk, top_n, bits)
          IN  /\ stk' = r.st
              /\ bits' = r.b
              /\ stkCall' = Called("reverse_top", top_n, <<>>, FALSE)
    /\ UNCHANGED <<stkPanic, exceptCall>>

\* stack.reverse_top(top_n, bits) once more, with the same top_n
CallReverseTopAgain ==
    /\ stkCall.phase = 1
    /\ stkCall.op = "reverse_top"
    /\ LET r == reverse_top(stk, stkCall.top_n, bits)
       IN  /\ stk' = r.st
           /\ bits' = r.b
    /\ stkCall' = [stkCall EXCEPT !.phase = 2]
    /\ UNCHANGED <<stkPanic, exceptCall>>

\* ok = stack.try_crush_wall()
CallTryCrushWall ==
    /\ stkCall.phase = 0
    /\ LET r == try_crush_wall(stk)
       IN  /\ stk' = r.st
           /\ stkCall' = Called("try_crush_wall", 0, <<>>, r.ret)
    /\ UNCHANGED <<bits, stkPanic, exceptCall>>

\* stack.uncrush_wall() after try_crush_wall returned true
CallUncrushCrushed ==
    /\ stkCall.phase = 1
    /\ stkCall.op = "try_crush_wall"
    /\ stkCall.ok
    /\ LET r == uncrush_wall(stk)
       IN  /\ stk' = r.st
           /\ stkPanic' = r.panic
    /\ stkCall' = [stkCall EXCEPT !.phase = 2]
    /\ UNCHANGED <<bits, exceptCall>>

\* stack.uncrush_wall() on the Stack as built
CallUncrushWall ==
    /\ stkCall.phase = 0
    /\ LET r == uncrush_wall(stk)
       IN  /\ stk' = r.st
           /\ stkPanic' = r.panic
    /\ stkCall' = Called("uncrush_wall", 0, <<>>, FALSE)
    /\ UNCHANGED <<bits, exceptCall>>

CallNext ==
    \/ CallSplitOff
    \/ CallExtend
    \/ CallReverseTop
    \/ CallReverseTopAgain
    \/ CallTryCrushWall
    \/ CallUncrushCrushed
    \/ CallUncrushWall

InitCall ==
    CallInit /\ RoadIdle /\ PopIdle /\ BoardIdle /\ SearchIdle /\ BitsIdle /\ IterIdle /\ ExecIdle /\ DefendIdle /\ ViewIdle

SpecCall == InitCall /\ [][CallNext]_vars

(***************************************************************************)
(* execute_moves_check_valid (lib.rs) and InteractiveSearch::change_view   *)
(* (proof.rs): requested moves are applied one by one, each only if        *)
(* generate_all_moves lists it.                                            *)
(***************************************************************************)
\* what a PTN string can ask for on board b (GameMove::try_from_ptn): a
\* placement of any kind on any square, a stack move from any square with
\* pieces, with or without the crush mark, or nothing parsable
Unparsable == [kind |-> "unparsable"]
Requests(b) ==
    LET me == side_to_move(b)
        MinInt(x, y) == IF x < y THEN x ELSE y
    IN  { [kind |-> "place", piece |-> p, sq |-> sq] :
            sq \in BoardSquares,
            p \in { flat(me), wall(me), cap(me), flat(other(me)) } }
        \cup
        UNION { UNION { UNION {
            { [kind |-> "stack", src |-> src, dir |-> dir, number |-> n,
               drops |-> drops, crush |-> c] :
              drops \in { d \in Compositions(n) : Path(src, dir, Len(d)) # <<>> },
              c \in BOOLEAN }
            : n \in 1..MinInt(Len(b.stacks[src]), BoardSize) }
            : dir \in {"N", "E", "S", "W"} }
            : src \in BoardSquares }
        \cup { Unparsable }

\* one iteration of the loop of execute_moves_check_valid for the request m:
\* the board and made_moves afterwards, err when the function returned Err
execute_move(b, made_moves, m) ==
    IF m = Unparsable
    THEN [board |-> b, made |-> made_moves, err |-> TRUE]
    ELSE IF m \in LegalMoves(b)
         THEN [board |-> do_move(b, m).board, made |-> Append(made_moves, m),
               err |-> FALSE]
         ELSE [board |-> b, made |-> made_moves, err |-> TRUE]

change_view_step_skip(b, view_hist, m) ==
    IF m = Unparsable
    THEN [board |-> b, made |-> view_hist, err |-> TRUE]
    ELSE IF m \in LegalMoves(b)
         THEN LET r == do_move(b, m)
              IN  [board |-> r.board,
                   made |-> Append(view_hist, [m |-> m, rev |-> r.rev]),
                   err |-> FALSE]
         ELSE [board |-> b, made |-> view_hist, err |-> FALSE]

\* one iteration of the loop of change_view for the request m: the board and
\* view_hist afterwards, err when the function returned Err
change_view_step(b, view_hist, m) ==
    IF m = Unparsable
    THEN [board |-> b, made |-> view_hist, err |-> TRUE]
    ELSE IF m \in LegalMoves(b)
         THEN LET r == do_move(b, m)
              IN  [board |-> r.board,
                   made |-> Append(view_hist, [m |-> m, rev |-> r.rev]),
                   err |-> FALSE]
         ELSE [board |-> b, made |-> view_hist, err |-> TRUE]

\* execute_moves_check_valid is called on the initial board, or an
\* InteractiveSearch is made on it (view_hist empty) and change_view called
ExecInit ==
    /\ board = InitialBoard
    /\ revs = <<>>
    /\ snaps = <<>>
    /\ undone = NoUndo
    /\ \E fn \in {"execute_moves_check_valid", "change_view"} :
          exec = [fn |-> fn, phase |-> "running", requested |-> <<>>,
                  made |-> <<>>, before |-> 0, n |-> 0]

\* execute_moves_check_valid: the next string of ptn_slice
ExecuteMove ==
    /\ exec.fn = "execute_moves_check_valid"
    /\ exec.phase = "running"
    /\ exec.n < MaxMoves
    /\ \E m \in Requests(board) :
          LET r == execute_move(board, exec.made, m)
          IN  /\ board' = r.board
              /\ exec' = [exec EXCEPT !.requested = Append(@, m),
                                      !.made = r.made,
                                      !.phase = IF r.err THEN "Err" ELSE @,
                                      !.n = @ + 1]
    /\ UNCHANGED exceptExec

\* execute_moves_check_valid: ptn_slice is exhausted, Ok(made_moves)
ExecuteMovesOk ==
    /\ exec.fn = "execute_moves_check_valid"
    /\ exec.phase = "running"
    /\ exec' = [exec EXCEPT !.phase = "Ok"]
    /\ UNCHANGED <<board, exceptExec>>

\* change_view: the next part of line
ChangeViewMove ==
    /\ exec.fn = "change_view"
    /\ exec.phase = "running"
    /\ exec.n < MaxMoves
    /\ \E m \in Requests(board) :
          LET r == change_view_step(board, exec.made, m)
          IN  /\ board' = r.board
              /\ exec' = [exec EXCEPT !.requested = Append(@, m),
                                      !.made = r.made,
                                      !.phase = IF r.err THEN "Err" ELSE @,
                                      !.n = @ + 1]
    /\ UNCHANGED exceptExec

\* change_view: line is exhausted, Ok(())
ChangeViewOk ==
    /\ exec.fn = "change_view"
    /\ exec.phase = "running"
    /\ exec.requested # <<>>
    /\ exec' = [exec EXCEPT !.phase = "Ok"]
    /\ UNCHANGED <<board, exceptExec>>

\* change_view is called again on the same InteractiveSearch
ChangeViewCall ==
    /\ exec.fn = "change_view"
    /\ exec.phase \in {"Ok", "Err"}
    /\ exec.n < MaxMoves
    /\ exec' = [exec EXCEPT !.phase = "running", !.requested = <<>>,
                            !.before = Len(exec.made)]
    /\ UNCHANGED <<board, exceptExec>>

ExecNext ==
    \/ ExecuteMove
    \/ ExecuteMovesOk
    \/ ChangeViewMove
    \/ ChangeViewOk
    \/ ChangeViewCall

InitExec ==
    ExecInit /\ RoadIdle /\ PopIdle /\ StackIdle /\ SearchIdle /\ BitsIdle /\ IterIdle /\ CallIdle /\ DefendIdle /\ ViewIdle

SpecExec == InitExec /\ [][ExecNext]_vars

(***************************************************************************)
(* defender_responses on the moves of bounded positions: the defender has  *)
(* up to MaxStackMoves stack moves, the board up to MaxEmpty empty         *)
(* squares, and the reserves hold flats, a capstone, both or neither.      *)
(***************************************************************************)
\* the sequences without repetition of up to n of the elements of S
RECURSIVE Arrangements(_, _)
Arrangements(S, n) ==
    IF n = 0 THEN { <<>> }
    ELSE LET shorter == Arrangements(S, n - 1)
         IN  shorter \cup { Append(q, x) : q \in shorter, x \in S }

NoRepeat(q) == \A i, j \in 1..Len(q) : i # j => q[i] # q[j]

\* generate_all_place_moves: on each empty square, in order, a flat and a
\* wall while flats are in reserve and a capstone while one is in reserve
RECURSIVE generate_all_place_moves(_, _, _, _)
generate_all_place_moves(side, empty, flats, caps) ==
    IF empty = <<>> THEN <<>>
    ELSE LET sq == Head(empty)
         IN  (IF flats THEN <<from_placement(flat(side), sq),
                              from_placement(wall(side), sq)>> ELSE <<>>)
             \o (IF caps THEN <<from_placement(cap(side), sq)>> ELSE <<>>)
             \o generate_all_place_moves(side, Tail(empty), flats, caps)

\* the positions handed to defender_responses
DefendInit ==
    \E side \in Colours, flats \in BOOLEAN, caps \in BOOLEAN,
       n \in 0..MaxEmpty,
       stack_moves \in { q \in Arrangements({ StackMove(id) : id \in 1..MaxStackMoves },
                                             MaxStackMoves) : NoRepeat(q) } :
        LET empty == [i \in 1..n |-> 10 + i]
            place_moves == generate_all_place_moves(side, empty, flats, caps)
            roads == { <<>> } \cup { <<stack_moves[i]>> : i \in 1..Len(stack_moves) }
                     \cup { <<place_moves[i]>> : i \in { j \in 1..Len(place_moves) :
                                                          ~is_wall(place_moves[j].piece) } }
            placements == { <<>> }
                          \cup { <<from_placement(flat(other(side)), empty[i])>> : i \in 1..n }
        IN  \E road \in roads, placement \in placements :
                dresp = [phase |-> "input", side |-> side, stack_moves |-> stack_moves,
                         road |-> road, place_moves |-> place_moves,
                         placement |-> placement, out |-> NoOutcome]

\* TinueSearch::defender_responses(&mut board, hint)
DefenderResponses ==
    /\ dresp.phase = "input"
    /\ dresp' = [dresp EXCEPT
                    !.phase = "done",
                    !.out = defender_responses_moves(dresp.stack_moves, dresp.road,
                                                     dresp.place_moves, dresp.placement)]
    /\ UNCHANGED exceptDefend

DefendNext == DefenderResponses

InitDefend ==
    DefendInit /\ RoadIdle /\ PopIdle /\ StackIdle /\ BoardIdle /\ SearchIdle /\ BitsIdle /\ IterIdle /\ CallIdle /\ ExecIdle /\ ViewIdle

SpecDefend == InitDefend /\ [][DefendNext]_vars

(***************************************************************************)
(* InteractiveSearch (proof.rs): the view on the board is moved by         *)
(* change_view and taken back by reset_view; expand_line walks a line,     *)
(* marks its positions and walks back.                                     *)
(***************************************************************************)
\* the requests handed to change_view and expand_line in all
MaxRequests == 2

\* Board::hash: the running Zobrist hash of the BitboardStorage
hash(b) == b.bits.hash

\* the lines of up to k requests that can be asked for from board b on, each
\* request one that parses on the board the requests before it lead to;
\* nothing follows a part that does not parse
RECURSIVE Lines(_, _)
Lines(b, k) ==
    IF k = 0
    THEN { <<>> }
    ELSE { <<>> } \cup
         UNION { IF m = Unparsable
                 THEN { <<m>> }
                 ELSE { <<m>> \o l : l \in Lines(do_move(b, m).board, k - 1) }
                 : m \in Requests(b) }

\* every move of the line is one generate_all_moves lists on the board the
\* moves before it lead to
RECURSIVE AllLegal(_, _)
AllLegal(b, moves) ==
    \/ moves = <<>>
    \/ /\ Head(moves) # Unparsable
       /\ Head(moves) \in LegalMoves(b)
       /\ AllLegal(do_move(b, Head(moves)).board, Tail(moves))

\* InteractiveSearch::new on the board of the search; created keeps that
\* board, n counts the requests made, legal tells whether every line given
\* to expand_line so far held legal moves only
InteractiveSearch_new(b) ==
    [board |-> b, expand |-> { hash(b) }, view_hist |-> <<>>,
     created |-> <<b>>, last |-> "new", n |-> 0, legal |-> TRUE]

\* InteractiveSearch::change_view: the loop over the parts of line, left at
\* the first part that gives Err; r is the outcome of the part before
RECURSIVE change_view(_, _, _)
change_view_rest(r, line) ==
    IF r.err
    THEN [board |-> r.board, view_hist |-> r.made, err |-> TRUE]
    ELSE change_view(r.board, r.made, line)
change_view(b, view_hist, line) ==
    IF line = <<>>
    THEN [board |-> b, view_hist |-> view_hist, err |-> FALSE]
    ELSE change_view_rest(change_view_step(b, view_hist, Head(line)), Tail(line))

\* the first loop of expand_line: try_from_ptn(..).unwrap() panics on a part
\* that does not parse, every other move is made unchecked (r is what
\* do_move returned), the hash of the board after it inserted and the
\* reverse move kept
RECURSIVE expand_walk(_, _, _, _)
expand_step(r, expand, rev_moves, moves) ==
    expand_walk(r.board, expand \cup { hash(r.board) }, Append(rev_moves, r.rev), moves)
expand_walk(b, expand, rev_moves, moves) ==
    IF moves = <<>>
    THEN [board |-> b, expand |-> expand, rev_moves |-> rev_moves, panic |-> FALSE]
    ELSE IF Head(moves) = Unparsable
         THEN [board |-> b, expand |-> expand, rev_moves |-> rev_moves, panic |-> TRUE]
         ELSE expand_step(do_move(b, Head(moves)), expand, rev_moves, Tail(moves))

\* for rev in rev_moves.into_iter().rev() { self.board.reverse_move(rev) };
\* r is what the reverse_move before returned
RECURSIVE reverse_all(_, _)
reverse_rest(r, rev_moves) ==
    IF r.panic
    THEN [board |-> r.board, panic |-> TRUE]
    ELSE reverse_all(r.board, rev_moves)
reverse_all(b, rev_moves) ==
    IF rev_moves = <<>>
    THEN [board |-> b, panic |-> FALSE]
    ELSE reverse_rest(reverse_move(b, rev_moves[Len(rev_moves)]),
                      SubSeq(rev_moves, 1, Len(rev_moves) - 1))

\* the second loop of expand_line, after the walk w
expand_back(w) ==
    IF w.panic
    THEN [board |-> w.board, panic |-> TRUE]
    ELSE reverse_all(w.board, w.rev_moves)

\* InteractiveSearch::expand_line: the board afterwards and whether the call
\* panicked
expand_line(b, expand, moves) == expand_back(expand_walk(b, expand, <<>>, moves))

\* the expand set after expand_line
expand_line_set(b, expand, moves) == expand_walk(b, expand, <<>>, moves).expand

\* InteractiveSearch::reset_view: view_hist is drained, last move first
reset_view(b, view_hist) ==
    reverse_all(b, [i \in 1..Len(view_hist) |-> view_hist[i].rev])

\* the boards an InteractiveSearch is made on: the initial board, and the
\* board after the two opening placements on a1 and b1
ViewBoards ==
    { InitialBoard,
      do_move(do_move(InitialBoard,
                      [kind |-> "place", piece |-> "BlackFlat", sq |-> 0]).board,
              [kind |-> "place", piece |-> "WhiteFlat", sq |-> 1]).board }

ViewInit ==
    \E b \in ViewBoards :
        view = InteractiveSearch_new(b)

ViewAlive == view.last \notin {"idle", "panic"}

\* the InteractiveSearch v after a call that returned r
AfterChangeView(v, r, requests) ==
    [v EXCEPT !.board = r.board, !.view_hist = r.view_hist,
              !.last = IF r.err THEN "change_view Err" ELSE "change_view Ok",
              !.n = @ + requests]
AfterExpandLine(v, r, expand, requests, legal) ==
    [v EXCEPT !.board = r.board, !.expand = expand,
              !.last = IF r.panic THEN "panic" ELSE "expand_line",
              !.n = @ + requests,
              !.legal = @ /\ legal]
AfterResetView(v, r) ==
    [v EXCEPT !.board = r.board, !.view_hist = <<>>,
              !.last = IF r.panic THEN "panic" ELSE "reset_view"]

\* change_view(line)
ViewChangeView ==
    /\ ViewAlive
    /\ \E line \in Lines(view.board, MaxRequests - view.n) \ { <<>> } :
          view' = AfterChangeView(view, change_view(view.board, view.view_hist, line),
                                  Len(line))
    /\ UNCHANGED <<bitVars, stackVars, boardVars, searchVars, bb, bitIter, stkCall, exec, dresp>>

\* expand_line(moves)
ViewExpandLine ==
    /\ ViewAlive
    /\ \E moves \in Lines(view.board, MaxRequests - view.n) :
          view' = AfterExpandLine(view, expand_line(view.board, view.expand, moves),
                                  expand_line_set(view.board, view.expand, moves),
                                  Len(moves), AllLegal(view.board, moves))
    /\ UNCHANGED <<bitVars, stackVars, boardVars, searchVars, bb, bitIter, stkCall, exec, dresp>>

\* reset_view()
ViewResetView ==
    /\ ViewAlive
    /\ view' = AfterResetView(view, reset_view(view.board, view.view_hist))
    /\ UNCHANGED <<bitVars, stackVars, boardVars, searchVars, bb, bitIter, stkCall, exec, dresp>>

\* reset_expansion()
ViewResetExpansion ==
    /\ ViewAlive
    /\ view' = [view EXCEPT !.expand = {}, !.last = "reset_expansion"]
    /\ UNCHANGED <<bitVars, stackVars, boardVars, searchVars, bb, bitIter, stkCall, exec, dresp>>

ViewNext ==
    \/ ViewChangeView
    \/ ViewExpandLine
    \/ ViewResetView
    \/ ViewResetExpansion

InitView ==
    ViewInit /\ RoadIdle /\ PopIdle /\ StackIdle /\ BoardIdle /\ SearchIdle /\ BitsIdle /\ IterIdle /\ CallIdle /\ ExecIdle /\ DefendIdle

SpecView == InitView /\ [][ViewNext]_vars

(***************************************************************************)
(* C8, C9: the top bitboards and the hash after Stack operations.          *)
(***************************************************************************)
\* the hash the current stack contents determine: the top key of the top
\* piece and the middle key (piece, square, height) of every piece
HashOfStack(self) ==
    (IF self.data = <<>> THEN {} ELSE { <<"top", last(self), self.index>> })
    \cup { <<"mid", self.data[h + 1], self.index, h>> : h \in 0..(Len(self.data) - 1) }

\* the top bitboards the current top piece determines
TopBitsMatch(self, b) ==
    LET bit == index_to_bit(self.index)
        top == last(self)
    IN  /\ b.white = IF top # "None" /\ owner(top) = "White" THEN bit ELSE {}
        /\ b.black = IF top # "None" /\ owner(top) = "Black" THEN bit ELSE {}
        /\ b.flat = IF top # "None" /\ is_flat(top) THEN bit ELSE {}
        /\ b.wall = IF top # "None" /\ is_wall(top) THEN bit ELSE {}
        /\ b.cap = IF top # "None" /\ is_cap(top) THEN bit ELSE {}

\* C8: after any sequence of Stack operations the storage's white/black and
\* flat/wall/cap bits of the square match the stack's top piece (all clear
\* for an empty stack) and the hash is the one the stack contents determine.
C8_BitsAndHashReflectStack ==
    /\ TopBitsMatch(stk, bits)
    /\ bits.hash = HashOfStack(stk)

\* the part of C8 that the code keeps: the top bitboards always match
C8_TopBitsReflectStack == TopBitsMatch(stk, bits)

\* C9: white and black are disjoint, flat, wall and cap are pairwise
\* disjoint, and flat | wall | cap equals white | black.
C9_BitboardPartition ==
    /\ bits.white \cap bits.black = {}
    /\ bits.flat \cap bits.wall = {}
    /\ bits.flat \cap bits.cap = {}
    /\ bits.wall \cap bits.cap = {}
    /\ bits.flat \cup bits.wall \cup bits.cap = bits.white \cup bits.black

\* a stack built by several operations whose top changed colour and kind:
\* a white wall now lies on a black piece, and only the white and wall bits
\* of the square are set
C9_Witness ==
    /\ len(stk) >= 2
    /\ last(stk) = "WhiteWall"
    /\ owner(from_top(stk, 1)) = "Black"
    /\ bits.white = index_to_bit(stk.index)
    /\ bits.wall = index_to_bit(stk.index)

(***************************************************************************)
(* perft (lib.rs): every legal move is made, the position searched one     *)
(* level deeper, and the move reversed.                                    *)
(***************************************************************************)
\* board.do_move(mv) for a generated move
PerftDoMove ==
    /\ Len(revs) < MaxDepth
    /\ \E m \in LegalMoves(board) :
          LET r == do_move(board, m)
          IN  /\ board' = r.board
              /\ revs' = Append(revs, r.rev)
              /\ snaps' = Append(snaps, board)
    /\ undone' = NoUndo
    /\ UNCHANGED <<auxVars, bitVars, stackVars, searchVars>>

\* board.reverse_move(reverse_move) for the last move made
PerftReverseMove ==
    /\ revs # <<>>
    /\ LET rev == revs[Len(revs)]
           r == reverse_move(board, rev)
       IN  /\ board' = r.board
           /\ undone' = [active |-> TRUE, rev |-> rev,
                         before |-> snaps[Len(snaps)], panic |-> r.panic]
    /\ revs' = SubSeq(revs, 1, Len(revs) - 1)
    /\ snaps' = SubSeq(snaps, 1, Len(snaps) - 1)
    /\ UNCHANGED <<auxVars, bitVars, stackVars, searchVars>>

BoardNext == PerftDoMove \/ PerftReverseMove

InitBoard == BoardIdle /\ RoadIdle /\ PopIdle /\ StackIdle /\ SearchIdle /\ AuxIdle

SpecBoard == InitBoard /\ [][BoardNext]_vars

(***************************************************************************)
(* The steps of the tinue search.                                          *)
(***************************************************************************)
\* search.limit(max_nodes)
Limit ==
    /\ run.phase = "new"
    /\ run.index = 1
    /\ search.max_nodes = USIZE_MAX
    /\ \E max_nodes \in 0..MaxLimit : search' = limit(search, max_nodes)
    /\ UNCHANGED <<auxVars, pvCall, game, frames, run, bitVars, stackVars, boardVars>>

\* is_tinue up to its call of mid
IsTinueCall ==
    /\ run.phase = "new"
    /\ frames' = << [child |-> Child_new(root, null_move, search.board),
                     depth |-> 0, child_pns |-> <<>>, pc |-> "enter"] >>
    /\ run' = [run EXCEPT !.phase = "searching"]
    /\ UNCHANGED <<auxVars, pvCall, game, search, bitVars, stackVars, boardVars>>

\* mid: self.nodes > self.max_nodes, return
MidAbort ==
    /\ Searching
    /\ Top.pc = "enter"
    /\ OverBudget
    /\ search' = [search EXCEPT !.nodes = @ + 1]
    /\ frames' = mid_return(frames, Top.child)
    /\ run' = [run_after_return(run, frames, Top.child) EXCEPT !.cap_fired = TRUE]
    /\ UNCHANGED <<auxVars, pvCall, game, bitVars, stackVars, boardVars>>

\* mid: the game is over in the position
MidTerminal ==
    /\ Entering
    /\ flat_game(Entered.board)
    /\ MidLeave(Entered,
                IF board_side_to_move(Entered.board) = Entered.attacker
                THEN losing ELSE winning,
                MovedRun)

\* mid: AttackerOutcome::HasRoad
MidHasRoad ==
    /\ Entering
    /\ ~flat_game(Entered.board)
    /\ LET o == mid_outcome(Entered, Top.depth)
       IN  /\ o.outcome.kind = "HasRoad"
           /\ MidLeave(o.search, winning, MovedRun)

\* mid: AttackerOutcome::NoTakThreats
MidNoTakThreats ==
    /\ Entering
    /\ ~flat_game(Entered.board)
    /\ LET o == mid_outcome(Entered, Top.depth)
       IN  /\ o.outcome.kind = "NoTakThreats"
           /\ MidLeave(o.search, losing, MovedRun)

\* mid: DefenderOutcome::CanWin
MidCanWin ==
    /\ Entering
    /\ ~flat_game(Entered.board)
    /\ LET o == mid_outcome(Entered, Top.depth)
       IN  /\ o.outcome.kind = "CanWin"
           /\ MidLeave(o.search, winning, MovedRun)

\* mid: TakThreats or Defenses, up to the loop; an empty list of defences
\* fails assert!(!moves.is_empty())
MidExpand ==
    /\ Entering
    /\ ~flat_game(Entered.board)
    /\ LET o == mid_outcome(Entered, Top.depth)
       IN  /\ o.outcome.kind \in {"TakThreats", "Defenses"}
           /\ o.outcome.moves # <<>>
           /\ LET r == init_children(o.search, o.outcome.moves, Top.depth, <<>>)
              IN  /\ search' = r.search
                  /\ frames' = [frames EXCEPT ![Len(frames)] =
                                   [@ EXCEPT !.child_pns = r.child_pns, !.pc = "loop"]]
    /\ run' = [run EXCEPT !.touched = TRUE]
    /\ UNCHANGED <<auxVars, pvCall, game, bitVars, stackVars, boardVars>>

\* mid: assert!(moves.len() > 0) of defender_responses fails; the program
\* panics with the move of the node made and its hash pushed
MidAssertFails ==
    /\ Entering
    /\ ~flat_game(Entered.board)
    /\ LET o == mid_outcome(Entered, Top.depth)
       IN  /\ o.outcome.kind = "panic"
           /\ search' = o.search
    /\ run' = [run EXCEPT !.phase = "panic", !.touched = TRUE]
    /\ UNCHANGED <<auxVars, pvCall, game, frames, bitVars, stackVars, boardVars>>

\* mid: an index into top_moves is out of bounds (self.top_moves[depth] or
\* self.top_moves[depth + 2] in tinue_evaluate, self.top_moves[depth] after
\* CanWin); the program panics with the move of the node made and before
\* anything is stored for the node
MidIndexPanics ==
    /\ Entering
    /\ ~flat_game(Entered.board)
    /\ mid_outcome(Entered, Top.depth).outcome.kind = "out_of_bounds"
    /\ search' = mid_outcome(Entered, Top.depth).search
    /\ run' = [run EXCEPT !.phase = "out_of_bounds", !.touched = TRUE]
    /\ UNCHANGED <<auxVars, pvCall, game, frames, bitVars, stackVars, boardVars>>

\* mid, the loop: a threshold of the child is reached
MidThresholdExit ==
    /\ Looping
    /\ LET lim == compute_bounds(Top.child_pns)
       IN  /\ Top.child.bounds.phi <= lim.phi \/ Top.child.bounds.delta <= lim.delta
           /\ MidLeave(search, lim, run)

\* the thresholds without the cap of the parent's phi
updated_bounds_uncapped(child, best_child, lim, second_best_bounds) ==
    Bounds(child.bounds.delta + best_child.bounds.phi - lim.delta,
           second_best_bounds.delta + 1)

\* mid, the loop: let updated_bounds = Bounds { phi: child.delta() +
\* best_child.phi() - limit.delta, delta: min(child.phi(),
\* second_best_bounds.delta + 1) }
updated_bounds(child, best_child, lim, second_best_bounds) ==
    Bounds(child.bounds.delta + best_child.bounds.phi - lim.delta,
           min(child.bounds.phi, second_best_bounds.delta + 1))

\* mid, the loop: the best child is given its thresholds and searched
MidDescend ==
    /\ Looping
    /\ LET lim == compute_bounds(Top.child_pns)
           child == Top.child
       IN  /\ ~(child.bounds.phi <= lim.phi \/ child.bounds.delta <= lim.delta)
           /\ LET sel == select_child(Top.child_pns)
                  best_child == Top.child_pns[sel.best_idx + 1]
                  ub == update_best_child(child, sel.best_idx, best_child.game_move,
                                          search.replies)
                  u == update_bounds(best_child,
                                     updated_bounds(child, best_child, lim, sel.second_best),
                                     search.bounds_table)
              IN  /\ search' = [search EXCEPT !.replies = ub.table,
                                              !.bounds_table = u.table]
                  /\ frames' = Append(
                         [frames EXCEPT ![Len(frames)] =
                             [@ EXCEPT !.child = ub.child,
                                       !.child_pns[sel.best_idx + 1] = u.child]],
                         [child |-> u.child, depth |-> Top.depth + 1,
                          child_pns |-> <<>>, pc |-> "enter"])
    /\ UNCHANGED <<auxVars, pvCall, game, run, bitVars, stackVars, boardVars>>

\* is_tinue after mid has returned
IsTinueReturn ==
    /\ run.phase = "returned"
    /\ run' = [run EXCEPT
                  !.phase = "done",
                  !.result = IF aborted(search) THEN "None"
                             ELSE IF run.root.bounds.delta = INFINITY
                                  THEN "Some(true)" ELSE "Some(false)"]
    /\ UNCHANGED <<auxVars, pvCall, game, search, frames, bitVars, stackVars, boardVars>>

\* a second, fresh TinueSearch with the same limit on the board the first
\* one holds
SecondSearch ==
    /\ run.phase = "done"
    /\ run.index = 1
    /\ pvCall.called => pvCall.returned
    /\ pvCall' = NoPv
    /\ search' = [TinueSearch_new(search.board) EXCEPT !.max_nodes = search.max_nodes]
    /\ run' = [NewRun EXCEPT !.index = 2,
                             !.first = << [result |-> run.result, search |-> search] >>]
    /\ UNCHANGED <<auxVars, game, frames, bitVars, stackVars, boardVars>>

\* search.principal_variation() after is_tinue
PrincipalVariation ==
    /\ run.phase = "done"
    /\ ~pvCall.called
    /\ LET r == principal_variation(search)
       IN  /\ search' = r.search
           /\ pvCall' = [called |-> TRUE, returned |-> r.returns, pv |-> r.pv,
                         before |-> <<search>>]
    /\ UNCHANGED <<auxVars, game, frames, run, bitVars, stackVars, boardVars>>

\* a second, fresh TinueSearch with the same limit on the same board, which
\* passes the empty hint wherever the first passed top_moves[..].get_best()
HintFreeSearch ==
    /\ run.phase = "done"
    /\ run.index = 1
    /\ pvCall.called => pvCall.returned
    /\ pvCall' = NoPv
    /\ search' = [TinueSearch_new(search.board) EXCEPT !.max_nodes = search.max_nodes]
    /\ run' = [NewRun EXCEPT !.index = 2, !.hint_free = TRUE,
                             !.first = << [result |-> run.result, search |-> search] >>]
    /\ UNCHANGED <<auxVars, game, frames, bitVars, stackVars, boardVars>>

SearchNext ==
    \/ Limit \/ IsTinueCall \/ MidAbort \/ MidTerminal \/ MidHasRoad
    \/ MidNoTakThreats \/ MidCanWin \/ MidAssertFails \/ MidIndexPanics
    \/ MidExpand \/ MidThresholdExit
    \/ MidDescend \/ IsTinueReturn \/ SecondSearch \/ HintFreeSearch
    \/ PrincipalVariation

InitSearch == SearchInit /\ RoadIdle /\ PopIdle /\ StackIdle /\ BoardIdle /\ AuxIdle

SpecSearch == InitSearch /\ [][SearchNext]_vars

(***************************************************************************)
(* C2: the result of is_tinue against the game's forced wins.              *)
(***************************************************************************)
\* one round of the AND/OR rule: an attacker position is won by an immediate
\* road or by a tak threat into a won position; a defender position is won
\* (by the attacker) when the defender has no road and every defence leads
\* to a won position; a position where the game is over is not won
WonStep(W) ==
    { p \in DOMAIN game.graph :
        LET n == game.graph[p]
        IN  /\ ~n.terminal
            /\ IF n.side = game.graph[game.root].side
               THEN n.road \/ \E i \in 1..Len(n.moves) : n.moves[i].to \in W
               ELSE /\ ~n.road
                    /\ n.moves # <<>>
                    /\ \A i \in 1..Len(n.moves) : n.moves[i].to \in W }

\* the positions won in finitely many moves: the minimax value of the game
\* tree unfolded from each position
RECURSIVE WonFrom(_)
WonFrom(W) ==
    LET W2 == W \cup WonStep(W)
    IN  IF W2 = W THEN W ELSE WonFrom(W2)

ForcedWin == game.root \in WonFrom({})

\* C2: with an unlimited node budget is_tinue returns Some(true) exactly
\* when the attacker has a forced win in the AND/OR game tree, and
\* Some(false) otherwise.
C2_IsTinueAgreesWithMinimax ==
    (run.phase = "done" /\ search.max_nodes = USIZE_MAX) =>
        run.result = IF ForcedWin THEN "Some(true)" ELSE "Some(false)"

(***************************************************************************)
(* C3: None exactly when the node budget was exceeded.                     *)
(***************************************************************************)
\* C3: is_tinue returns None if and only if the node counter exceeded
\* max_nodes during the search (some mid returned at its budget check), and
\* Some(true) or Some(false) in every other case; with limit(0) it returns
\* None after counting one node, without a move made on the board.
C3_NoneIffBudgetExceeded ==
    run.phase = "done" =>
        /\ run.result \in {"None", "Some(true)", "Some(false)"}
        /\ (run.result = "None") <=> run.cap_fired
        /\ (run.result = "None") <=> usize_gt(search.nodes, search.max_nodes)
        /\ search.max_nodes = Usize(0) =>
               /\ run.result = "None"
               /\ ~run.touched
               /\ search.board = game.root
               /\ search.nodes = 1

\* is_tinue returned None under limit(0), for a root with tak threats
C3_Witness ==
    /\ run.phase = "done"
    /\ search.max_nodes = Usize(0)
    /\ run.result = "None"
    /\ game.graph[game.root].moves # <<>>

(***************************************************************************)
(* C4: the root's bounds when the outermost mid returns.                   *)
(***************************************************************************)
\* C4: whenever the top-level mid has returned without the node cap having
\* fired, exactly one of root.delta = INFINITY and root.phi = INFINITY
\* holds; is_tinue returns Some(true) in the first case and Some(false)
\* only in the second.
C4_RootSolved ==
    (run.phase \in {"returned", "done"} /\ ~run.cap_fired) =>
        LET b == run.root.bounds
        IN  /\ (b.delta = INFINITY) # (b.phi = INFINITY)
            /\ run.phase = "done" =>
                   /\ b.delta = INFINITY => run.result = "Some(true)"
                   /\ run.result = "Some(false)" => b.phi = INFINITY

(***************************************************************************)
(* C5: every mid undoes its move.                                          *)
(***************************************************************************)
\* the number of invocations of mid that are past their budget check
EnteredFrames ==
    IF frames = <<>> THEN 0
    ELSE IF Top.pc = "enter" THEN Len(frames) - 1 ELSE Len(frames)

\* C5: the moves made and not undone are exactly those of the invocations
\* of mid in progress (the board is at the position of the innermost one,
\* rev_moves holds one move for each but the root), so every invocation
\* that returned has undone its move, on whichever path it returned; when
\* mid has returned to is_tinue, and when is_tinue has returned any of its
\* three results, the board is the root position and rev_moves is empty.
C5_MovesUndone ==
    /\ run.phase \in {"returned", "done"} =>
           /\ search.board = game.root
           /\ search.rev_moves = <<>>
    /\ run.phase = "searching" =>
           /\ Len(search.rev_moves) = IF EnteredFrames = 0 THEN 0 ELSE EnteredFrames - 1
           /\ search.board = IF EnteredFrames = 0 THEN game.root
                             ELSE frames[EnteredFrames].child.zobrist

\* is_tinue returned None after the cap fired three or more moves deep
C5_Witness ==
    /\ run.phase = "done"
    /\ run.result = "None"
    /\ run.touched
    /\ search.max_nodes = Usize(3)
    /\ search.tinue_cache_misses >= 2

C1_DoReverseRestores ==
    undone.active =>
        /\ board = undone.before
        /\ side_to_move(board) = side_to_move(undone.before)
        /\ ~undone.panic

\* a crushing stack move was made and undone below other moves still pending
C1_Witness ==
    /\ undone.active
    /\ undone.rev.game_move.kind = "stack"
    /\ undone.rev.game_move.crush
    /\ Len(revs) >= 2


(***************************************************************************)
(* C7: the road check decides 4-connected edge-to-edge connectivity.       *)
(***************************************************************************)
Row(b) == b \div 8
Col(b) == b % 8
Neighbours(s, t) ==
    \/ Row(s) = Row(t) /\ (Col(s) - Col(t)) \in {-1, 1}
    \/ Col(s) = Col(t) /\ (Row(s) - Row(t)) \in {-1, 1}

\* the squares of R joined to a square of seen by a path inside R
RECURSIVE Reach(_, _)
Reach(seen, R) ==
    LET more == { t \in R \ seen : \E s \in seen : Neighbours(s, t) }
    IN  IF more = {} THEN seen ELSE Reach(seen \cup more, R)

\* R joins the top edge (row 1) to the bottom edge (row 6), or the left edge
\* (file 1) to the right edge (file 6)
HasRoadPath(R) ==
    \/ \E t \in Reach({ s \in R : Row(s) = 1 }, R) : Row(t) = 6
    \/ \E t \in Reach({ s \in R : Col(s) = 1 }, R) : Col(t) = 6

\* C7: whenever check_road has run on a road-piece bitboard, its answer is
\* true exactly when the bitboard holds a 4-connected path of set squares
\* from the top edge to the bottom edge or from the left edge to the right
\* edge; the full board has a road and the empty board has none.
C7_CheckRoadIffPath ==
    roadOut.called =>
        /\ roadOut.ret = HasRoadPath(roadIn)
        /\ (roadIn = INNER => roadOut.ret)
        /\ (roadIn = {} => ~roadOut.ret)

\* a road found from a LEFT seed alone: it joins left to right and no square
\* of it lies on the top edge
C7_Witness ==
    /\ roadOut.called
    /\ roadOut.ret
    /\ bitand(roadIn, TOP) = {}
    /\ Cardinality(roadIn) <= MaxRoadSquares

(***************************************************************************)
(* C10: pop_lowest.                                                        *)
(***************************************************************************)
\* the bits returned by the first n calls
PoppedUpTo(n) == UNION { popRet[i] : i \in 1..n }

\* C10: the i-th call of pop_lowest on a bitboard that still has bits returns
\* exactly the lowest bit left and clears only that bit; a call on the empty
\* bitboard returns the empty bitboard and leaves it empty.  So the calls
\* return every set bit once, in increasing bit order, and empty the bitboard.
C10_PopLowest ==
    /\ popBits = popIn \ PoppedUpTo(Len(popRet))
    /\ \A i \in 1..Len(popRet) :
          LET before == popIn \ PoppedUpTo(i - 1)
          IN  IF before = {}
              THEN popRet[i] = {}
              ELSE /\ popRet[i] \subseteq before
                   /\ Cardinality(popRet[i]) = 1
                   /\ \A b \in before : \A r \in popRet[i] : r <= b
    /\ (Len(popRet) >= Cardinality(popIn) => popBits = {})
    /\ (popIn = PopTestVector /\ Len(popRet) = 1 =>
           /\ popRet[1] = new(U64(<<0, 2, 0, 0, 0, 0, 0, 0>>))             \* 0x200
           /\ popBits = new(U64(<<0, 124, 0, 60, 16, 32, 0, 0>>)))         \* 0x20103c007c00

\* every bit of a bitboard of several bits was popped, and pop_lowest was
\* then called on the emptied bitboard
C10_Witness ==
    /\ Cardinality(popIn) >= 2
    /\ Len(popRet) = Cardinality(popIn) + 1
    /\ popRet[Len(popRet)] = {}


(***************************************************************************)
(* C11: Bitboard6 values stay inside the inner 6x6 mask.                   *)
(***************************************************************************)
\* the on-board squares orthogonally next to a square of data
OnBoardNeighbours(data) ==
    { s \in AllBits : /\ Row(s) \in 1..6
                      /\ Col(s) \in 1..6
                      /\ \E t \in data : Neighbours(s, t) }

\* C11: every Bitboard6 produced from Bitboard6::new by any sequence of &, |,
\* !, |=, &=, adjacent, pop_lowest and index_to_bit has no bit outside the
\* inner mask 0x7e7e7e7e7e7e00, and the result of adjacent is exactly the set
\* of on-board squares orthogonally next to a square of its argument
C11_InnerMaskKept ==
    /\ bb.a \subseteq INNER
    /\ bb.b \subseteq INNER
    /\ bb.op = "adjacent" => bb.b = OnBoardNeighbours(bb.arg)

\* adjacent has run on a bitboard holding a square of the last file and a
\* square of the first file (whose shifts leave the board or change rank),
\* after another operator produced that bitboard
C11_Witness ==
    /\ bb.op = "adjacent"
    /\ bb.n >= 2
    /\ \E s \in bb.arg : Col(s) = 6
    /\ \E s \in bb.arg : Col(s) = 1
    /\ bb.b # {}


(***************************************************************************)
(* C12: index_to_bit, lowest_index and BitIndexIterator.                   *)
(***************************************************************************)
\* the square index 0..35 of an on-board bit position, row by row
SquareIndex(b) == (Row(b) - 1) * BoardSize + (Col(b) - 1)

\* the square indices BitIndexIterator has yielded so far
Yielded == { bitIter.out[i].n : i \in { j \in 1..Len(bitIter.out) : bitIter.out[j].some } }

\* C12: index_to_bit(i) has exactly one bit, inside the inner region, and
\* lowest_index(index_to_bit(i)) = i; a BitIndexIterator yields exactly the
\* indices of the set squares, each once, in ascending index order
C12_IndexBitInverse ==
    /\ bitIter.last.set =>
          /\ Cardinality(bitIter.last.bit) = 1
          /\ bitIter.last.bit \subseteq INNER
          /\ lowest_index(bitIter.last.bit) = [panic |-> FALSE, index |-> bitIter.last.idx]
    /\ bitIter.started =>
          /\ ~bitIter.panic
          /\ \A i \in 1..Len(bitIter.out) : \A j \in 1..Len(bitIter.out) :
                (i < j /\ bitIter.out[j].some) =>
                    (bitIter.out[i].some /\ bitIter.out[i].n < bitIter.out[j].n)
          /\ Yielded = { SquareIndex(b) : b \in bitIter.from \ bitIter.bits }
          /\ \A b \in bitIter.from \ bitIter.bits : \A c \in bitIter.bits : b < c
          /\ bitIter.bits \subseteq bitIter.from
          /\ (bitIter.out # <<>> /\ ~bitIter.out[Len(bitIter.out)].some) => bitIter.bits = {}

\* an iterator over the squares 5 and 30, set through index_to_bit, has
\* yielded both and then None
C12_Witness ==
    /\ bitIter.started
    /\ Cardinality(bitIter.from) = 2
    /\ Len(bitIter.out) = 3
    /\ ~bitIter.out[3].some
    /\ bitIter.out[1].n = 5
    /\ bitIter.out[2].n = 30


(***************************************************************************)
(* C13 .. C16: the algebraic laws of the Stack operations.                 *)
(***************************************************************************)
\* the hash after an operation differs from the hash before it by exactly
\* the keys the old and the new stack contents determine
HashFollows ==
    bits.hash = Xor(Xor(stkCall.bits0.hash, HashOfStack(stkCall.stk0)), HashOfStack(stk))

\* the pieces of the Stack the operation was called on, bottom first, and
\* their number
Data0 == stkCall.stk0.data
Height0 == Len(stkCall.stk0.data)

\* C13: split_off(k), 0 <= k <= height, returns exactly the top k pieces,
\* bottom-most first, and leaves the lower height - k pieces unchanged; the
\* top bitboards are those of the new top and the hash follows the contents;
\* extend(split_off(k)) restores the stack, the bitboards and the hash
C13_SplitOffExtend ==
    stkCall.op = "split_off" =>
        /\ stkCall.vec = [i \in 1..stkCall.top_n |-> Data0[Height0 - stkCall.top_n + i]]
        /\ stkCall.phase = 1 =>
              /\ stk.data = [i \in 1..(Height0 - stkCall.top_n) |-> Data0[i]]
              /\ stk.index = stkCall.stk0.index
              /\ TopBitsMatch(stk, bits)
              /\ HashFollows
        /\ stkCall.phase = 2 =>
              /\ stk = stkCall.stk0
              /\ bits = stkCall.bits0

\* two different pieces were split off a stack of three whose lowest piece
\* is of another kind than the old top, and put back
C13_Witness ==
    /\ stkCall.op = "split_off"
    /\ stkCall.phase = 2
    /\ stkCall.top_n = 2
    /\ Height0 = 3
    /\ stkCall.vec[1] # stkCall.vec[2]
    /\ Data0[1] # Data0[3]
    /\ stkCall.bits0.hash # {}

\* C14: reverse_top(k), 2 <= k <= height, reverses the order of the top k
\* pieces and leaves the pieces below unchanged, the top bitboards are those
\* of the new top and the hash follows the new arrangement; for k <= 1
\* nothing changes; applying it twice restores stack, bitboards and hash
C14_ReverseTop ==
    stkCall.op = "reverse_top" =>
        /\ stkCall.phase = 1 =>
              /\ stk.index = stkCall.stk0.index
              /\ Len(stk.data) = Height0
              /\ \A i \in 1..Height0 :
                    stk.data[i] =
                        IF stkCall.top_n >= 2 /\ i > Height0 - stkCall.top_n
                        THEN Data0[2 * Height0 - stkCall.top_n + 1 - i]
                        ELSE Data0[i]
              /\ TopBitsMatch(stk, bits)
              /\ HashFollows
              /\ stkCall.top_n <= 1 => (stk = stkCall.stk0 /\ bits = stkCall.bits0)
        /\ stkCall.phase = 2 =>
              /\ stk = stkCall.stk0
              /\ bits = stkCall.bits0

\* the top two pieces of a stack of three, of different colours, were
\* reversed and reversed again
C14_Witness ==
    /\ stkCall.op = "reverse_top"
    /\ stkCall.phase = 2
    /\ stkCall.top_n = 2
    /\ Height0 = 3
    /\ owner(Data0[2]) # owner(Data0[3])

\* C15: try_crush_wall returns true and replaces the piece beneath the top
\* by the flat of the same colour exactly when the height is at least 2 and
\* that piece is a wall; otherwise it returns false and changes nothing; the
\* top piece and every other piece never change
C15_TryCrushWall ==
    (stkCall.op = "try_crush_wall" /\ stkCall.phase = 1) =>
        LET crushable == Height0 >= 2 /\ is_wall(Data0[Height0 - 1])
        IN  /\ stkCall.ok = crushable
            /\ stk.index = stkCall.stk0.index
            /\ Len(stk.data) = Height0
            /\ \A i \in 1..Height0 :
                  IF crushable /\ i = Height0 - 1
                  THEN /\ is_flat(stk.data[i])
                       /\ owner(stk.data[i]) = owner(Data0[i])
                  ELSE stk.data[i] = Data0[i]
            /\ bits = stkCall.bits0

\* a wall beneath the top of a stack of three was crushed
C15_Witness ==
    /\ stkCall.op = "try_crush_wall"
    /\ stkCall.phase = 1
    /\ stkCall.ok
    /\ Height0 = 3
    /\ Data0[2] = "BlackWall"
    /\ stk.data[2] = "BlackFlat"

\* C16: uncrush_wall after a successful try_crush_wall restores the stack;
\* uncrush_wall panics whenever the height is below 2 or the piece beneath
\* the top is not a flat, and only then
C16_UncrushWall ==
    /\ (stkCall.op = "try_crush_wall" /\ stkCall.phase = 2) =>
          /\ ~stkPanic
          /\ stk = stkCall.stk0
          /\ bits = stkCall.bits0
    /\ stkCall.op = "uncrush_wall" =>
          /\ stkPanic = (Height0 < 2 \/ ~is_flat(Data0[Height0 - 1]))
          /\ stkPanic => stk = stkCall.stk0

\* a crushed white wall beneath a capstone was restored
C16_Witness ==
    /\ stkCall.op = "try_crush_wall"
    /\ stkCall.phase = 2
    /\ Data0[Height0 - 1] = "WhiteWall"
    /\ is_cap(Data0[Height0])
    /\ stk.data[Height0 - 1] = "WhiteWall"


(***************************************************************************)
(* C17: only generated moves are applied.                                  *)
(***************************************************************************)
\* the moves applied since the initial board
AppliedMoves ==
    IF exec.fn = "change_view"
    THEN [i \in 1..Len(exec.made) |-> exec.made[i].m]
    ELSE exec.made

\* the position reached from b by the moves ms
RECURSIVE Replay(_, _)
Replay(b, ms) ==
    IF ms = <<>> THEN b ELSE Replay(do_move(b, Head(ms)).board, Tail(ms))

\* the requests of the current call that were applied
MadeInCall == SubSeq(AppliedMoves, exec.before + 1, Len(AppliedMoves))

\* C17: in execute_moves_check_valid and in change_view a requested move that
\* generate_all_moves does not list gives Err and is never applied; on Err
\* the board is the position reached by the preceding legal moves; in
\* change_view view_hist holds exactly the applied moves
C17_OnlyLegalMovesApplied ==
    /\ board = Replay(InitialBoard, AppliedMoves)
    /\ \A k \in 1..Len(AppliedMoves) :
          AppliedMoves[k] \in LegalMoves(Replay(InitialBoard, SubSeq(AppliedMoves, 1, k - 1)))
    /\ exec.phase \in {"running", "Ok"} => MadeInCall = exec.requested
    /\ exec.phase = "Err" =>
          /\ exec.requested # <<>>
          /\ exec.requested[Len(exec.requested)] \notin LegalMoves(board)
          /\ MadeInCall = SubSeq(exec.requested, 1, Len(exec.requested) - 1)
    /\ exec.fn = "change_view" =>
          \A k \in 1..Len(exec.made) :
              exec.made[k].rev =
                  do_move(Replay(InitialBoard, SubSeq(AppliedMoves, 1, k - 1)),
                          exec.made[k].m).rev

\* change_view returned Err on a stack move that is not legal, after two
\* legal moves of the same call
C17_Witness ==
    /\ exec.fn = "change_view"
    /\ exec.phase = "Err"
    /\ Len(exec.requested) = 3
    /\ exec.requested[3].kind = "stack"
    /\ Len(exec.made) = 2


(***************************************************************************)
(* C18: the repetition guard on the attacker's moves.                      *)
(***************************************************************************)
\* the position of the i-th invocation of mid in progress, and the positions
\* on the path from the root down to it
FramePos(i) == frames[i].child.zobrist
PathTo(i) == { FramePos(j) : j \in 1..i }

\* the moves of a sequence of moves that lead outside the set seen, in order
RECURSIVE Unseen(_, _)
Unseen(moves, seen) ==
    IF moves = <<>> THEN <<>>
    ELSE IF Head(moves).to \in seen
         THEN Unseen(Tail(moves), seen)
         ELSE <<Head(moves)>> \o Unseen(Tail(moves), seen)

ChildMoves(i) == [j \in 1..Len(frames[i].child_pns) |-> frames[i].child_pns[j].game_move]

\* C18: at an attacker node the children are the tak threats whose position
\* after the move is not on the path from the root to the node, and no
\* invocation of mid below an attacker node is at a position of its
\* ancestors; at a defender node the children are all the defences
C18_RepetitionGuard ==
    \A i \in 1..Len(frames) :
        LET node == game.graph[FramePos(i)]
        IN  /\ frames[i].pc = "loop" =>
                  ChildMoves(i) =
                      IF node.side = search.attacker
                      THEN Unseen(node.moves, PathTo(i))
                      ELSE node.moves
            /\ (i > 1 /\ game.graph[FramePos(i - 1)].side = search.attacker) =>
                  FramePos(i) \notin PathTo(i - 1)

\* the root position was reached again by a defence; of its two tak threats
\* the one already on the path was dropped and the other is being searched
C18_Witness ==
    /\ Len(frames) >= 6
    /\ frames[5].pc = "loop"
    /\ FramePos(5) = game.root
    /\ Len(game.graph[game.root].moves) = 2
    /\ Len(frames[5].child_pns) = 1
    /\ game.graph[FramePos(4)].side # search.attacker
    /\ Len(frames[4].child_pns) = Len(game.graph[FramePos(4)].moves)


(***************************************************************************)
(* C19: the top-moves hint.                                                *)
(***************************************************************************)
\* the AttackerOutcome kind and the tak threats the position alone determines
ClassOf(pos) ==
    LET n == game.graph[pos]
    IN  IF n.road THEN [kind |-> "HasRoad", moves |-> <<>>]
        ELSE IF n.moves = <<>> THEN [kind |-> "NoTakThreats", moves |-> <<>>]
        ELSE [kind |-> "TakThreats", moves |-> n.moves]

StoredClass(self, pos) ==
    [kind |-> self.tinue_attempts[pos].kind, moves |-> self.tinue_attempts[pos].moves]

RECURSIVE PvPos(_)
PvPos(i) ==
    IF i = 1 THEN pvCall.before[1].board
    ELSE board_do_move(PvPos(i - 1), pvCall.pv[i - 1]).board

\* C20: when principal_variation returns, the moves returned are those got
\* by applying replies[hash] again and again from the position it started
\* from until replies has no entry, the board is the position it started
\* from, and replies (like the rest of the search) is unchanged
C20_PrincipalVariation ==
    (pvCall.called /\ pvCall.returned) =>
        LET before == pvCall.before[1]
        IN  /\ \A i \in 1..Len(pvCall.pv) :
                  /\ PvPos(i) \in DOMAIN before.replies
                  /\ pvCall.pv[i] = before.replies[PvPos(i)]
            /\ PvPos(Len(pvCall.pv) + 1) \notin DOMAIN before.replies
            /\ search.board = before.board
            /\ search.replies = before.replies
            /\ search = before

\* principal_variation returned a line of four moves after a proved tinue
C20_Witness ==
    /\ pvCall.called
    /\ pvCall.returned
    /\ run.result = "Some(true)"
    /\ Len(pvCall.pv) = 4


(***************************************************************************)
(* C21: the search after the node budget is exceeded.                      *)
(***************************************************************************)
\* a step of a search whose node counter has exceeded max_nodes
AfterAbort == run.phase = "searching" /\ run.cap_fired

\* C21: once the node counter has exceeded max_nodes no further mid is
\* invoked (no invocation is added to those in progress and the counter
\* stays as it is, so every loop still running exits on its next iteration),
\* the aborted call has made no move, and the final node count is at most
\* max_nodes + 1.
C21_AbortUnwinds ==
    /\ [][AfterAbort => /\ Len(frames') < Len(frames)
                        /\ search'.nodes = search.nodes]_vars
    /\ [][(Searching /\ Top.pc = "enter" /\ OverBudget) =>
              /\ search'.board = search.board
              /\ search'.rev_moves = search.rev_moves
              /\ search'.zobrist_hist = search.zobrist_hist]_vars
    /\ [](run.cap_fired => search.nodes = search.max_nodes.n + 1)

\* the exit test of mid's loop for the invocation f
ExitTest(f) ==
    LET lim == compute_bounds(f.child_pns)
    IN  f.child.bounds.phi <= lim.phi \/ f.child.bounds.delta <= lim.delta

\* C21 as the code has it: once the node counter has exceeded max_nodes,
\* every mid invoked returns at its budget check without a move made and
\* without touching the tables, and its caller's loop exits on its next
\* iteration; no invocation gets past its budget check any more and no move
\* is added to rev_moves; a caller further up may still invoke mid once on
\* another child, so the final node count is above max_nodes and at most
\* 2 * max_nodes (1 for max_nodes = 0).
C21_AbortedCallsReturn ==
    /\ [][(Searching /\ Top.pc = "enter" /\ OverBudget) =>
              /\ search' = [search EXCEPT !.nodes = @ + 1]
              /\ Len(frames') = Len(frames) - 1
              /\ Len(frames) > 1 => ExitTest(frames'[Len(frames')])]_vars
    /\ [][AfterAbort => /\ Len(search'.rev_moves) <= Len(search.rev_moves)
                        /\ search'.tinue_attempts = search.tinue_attempts
                        /\ Len(frames') <= Len(frames) + 1]_vars
    /\ [](AfterAbort /\ Top.pc = "enter" => OverBudget)
    /\ [](run.cap_fired =>
              /\ search.nodes > search.max_nodes.n
              /\ search.nodes <= 2 * search.max_nodes.n \/ search.nodes = 1)

\* the budget of 2 nodes was exceeded two moves below the root, the root
\* invoked mid once more, and the search has come back to is_tinue
C21_Witness ==
    /\ run.phase = "returned"
    /\ run.cap_fired
    /\ search.max_nodes = Usize(2)
    /\ search.nodes = 4
    /\ search.board = game.root


(***************************************************************************)
(* C22: the child mid selects.                                             *)
(***************************************************************************)
\* mid's loop is about to select a child
Selecting == Looping /\ ~ExitTest(Top)

\* the smallest delta among the children at the indices S
LeastDelta(children, S) ==
    CHOOSE d \in { children[i].bounds.delta : i \in S } :
        \A i \in S : d <= children[i].bounds.delta

\* select_child without its early return: a scan of all the children
RECURSIVE FullScan(_, _, _, _, _)
FullScan(children, idx, c_best_idx, best, second_best) ==
    IF idx >= Len(children)
    THEN [best_idx |-> c_best_idx, second_best |-> second_best]
    ELSE LET child == children[idx + 1]
         IN  IF child.bounds.delta < best.delta
             THEN FullScan(children, idx + 1, idx, child.bounds, best)
             ELSE IF child.bounds.delta < second_best.delta
                  THEN FullScan(children, idx + 1, c_best_idx, best, child.bounds)
                  ELSE FullScan(children, idx + 1, c_best_idx, best, second_best)

\* C22: whenever mid's loop selects a child, the child selected has the
\* least delta of all the children and is the first of those that have it,
\* the second-best bounds carry the least delta of the other children
\* (INFINITY when there is no other), no child has phi = INFINITY, and
\* select_child returns what a scan of all the children returns.
C22_SelectChild ==
    Selecting =>
        LET children == Top.child_pns
            all == 1..Len(children)
            sel == select_child(children)
            b == sel.best_idx + 1
        IN  /\ b \in all
            /\ children[b].bounds.delta = LeastDelta(children, all)
            /\ \A j \in 1..(b - 1) : children[j].bounds.delta > children[b].bounds.delta
            /\ sel.second_best.delta =
                   IF Len(children) = 1 THEN INFINITY
                   ELSE LeastDelta(children, all \ {b})
            /\ \A i \in all : children[i].bounds.phi # INFINITY
            /\ sel = FullScan(children, 1, 0, children[1].bounds, infinity)

\* mid selects among three children: the second is the first of the two
\* that share the least delta
C22_Witness ==
    /\ Selecting
    /\ Len(Top.child_pns) = 3
    /\ select_child(Top.child_pns).best_idx = 1
    /\ Top.child_pns[2].bounds.delta = Top.child_pns[3].bounds.delta
    /\ Top.child_pns[1].bounds.delta > Top.child_pns[2].bounds.delta


(***************************************************************************)
(* C23: the leaves of the search.                                          *)
(***************************************************************************)
\* the position pos is a leaf for mid: the game is over, or the attacker to
\* move has a road or no tak threat, or the defender to move has a road
IsLeaf(pos) ==
    LET n == game.graph[pos]
    IN  \/ n.terminal
        \/ n.side = search.attacker /\ (n.road \/ n.moves = <<>>)
        \/ n.side # search.attacker /\ n.road

\* mid is about to enter a position whose evaluation ends on an index into
\* top_moves that is out of bounds
IndexOutOfBounds ==
    /\ Entering
    /\ ~flat_game(Entered.board)
    /\ mid_outcome(Entered, Top.depth).outcome.kind = "out_of_bounds"

\* the position pos fails assert!(moves.len() > 0) of defender_responses:
\* the defender is to move, the game is not over, it has no road and no
\* stack move
NoStackMove(pos) ==
    LET n == game.graph[pos]
    IN  /\ ~n.terminal
        /\ n.side # search.attacker
        /\ ~n.road
        /\ \A i \in 1..Len(n.moves) : ~n.moves[i].is_stack_move

\* the bounds of a leaf, for the side to move there
LeafBounds(pos) ==
    LET n == game.graph[pos]
    IN  IF n.terminal
        THEN IF n.side = search.attacker THEN Bounds(INFINITY, 0) ELSE Bounds(0, INFINITY)
        ELSE IF n.road THEN Bounds(0, INFINITY) ELSE Bounds(INFINITY, 0)

\* C23: when mid enters a leaf (a position where the game is over, an
\* attacker position with a road or without tak threats, a defender
\* position with a road), it stores Losing (INFINITY, 0) for the attacker
\* at the end of the game or without threats and Winning (0, INFINITY) in
\* the other cases, in bounds_table under the position's hash and in the
\* caller's Child, the move is undone, and no child is given an entry
\* (where the evaluation of the leaf stays inside top_moves).
C23_LeafClassification ==
    [][(Entering /\ ~IndexOutOfBounds) =>
          LET pos == Entered.board
          IN  IsLeaf(pos) =>
                  /\ pos \in DOMAIN search'.bounds_table
                  /\ search'.bounds_table[pos] = LeafBounds(pos)
                  /\ DOMAIN search'.bounds_table = DOMAIN search.bounds_table \cup {pos}
                  /\ search'.board = search.board
                  /\ search'.rev_moves = search.rev_moves
                  /\ Len(frames') = Len(frames) - 1
                  /\ IF Len(frames) = 1
                     THEN run'.root.bounds = LeafBounds(pos)
                     ELSE LET parent == frames'[Len(frames')]
                          IN  parent.child_pns[parent.child.best_child.n + 1].bounds
                                  = LeafBounds(pos)]_vars

\* below the root and D1, in A1, the defender's position D3 has been stored
\* as a win for the defender, who can make a road there
C23_Witness ==
    /\ Looping
    /\ Len(frames) = 3
    /\ Top.child.zobrist = "A1"
    /\ game.graph["D3"].road
    /\ "D3" \in DOMAIN search.bounds_table
    /\ search.bounds_table["D3"] = winning
    /\ \E i \in 1..Len(Top.child_pns) :
           Top.child_pns[i].zobrist = "D3" /\ Top.child_pns[i].bounds = winning


(***************************************************************************)
(* C24: the bounds init_pns gives a child.                                 *)
(***************************************************************************)
\* the default bounds of the child reached by game_move from a node at
\* depth, where attacker tells whether the attacker is to move in the node
DefaultBounds(attacker, game_move, depth) ==
    IF attacker THEN [phi |-> 1, delta |-> 30 + depth * depth]
    ELSE IF game_move.is_stack_move
         THEN [phi |-> 10 + depth * depth, delta |-> 1]
         ELSE [phi |-> 20 + depth * depth, delta |-> 1]

\* C24: when mid builds its child list, every move of the node has
\* afterwards an entry in bounds_table under the hash of the position it
\* leads to: the entry that was there before, or else the default (1, 30 +
\* depth^2) below an attacker node, (10 + depth^2, 1) for a stack move and
\* (20 + depth^2, 1) for a placement below a defender node; every Child
\* built carries the bounds of that entry; no other entry changes; and the
\* board is the node's position as before.
C24_InitPns ==
    [][(Entering /\ ~IsLeaf(Entered.board) /\ ~NoStackMove(Entered.board)
            /\ ~IndexOutOfBounds) =>
          LET pos == Entered.board
              n == game.graph[pos]
              attacker == n.side = search.attacker
              before == search.bounds_table
              after == search'.bounds_table
              Expected(m) == IF m.to \in DOMAIN before THEN before[m.to]
                             ELSE DefaultBounds(attacker, m, Top.depth)
              built == frames'[Len(frames')].child_pns
          IN  /\ \A i \in 1..Len(n.moves) :
                     /\ n.moves[i].to \in DOMAIN after
                     /\ after[n.moves[i].to] = Expected(n.moves[i])
              /\ \A i \in 1..Len(built) :
                     /\ built[i].zobrist = built[i].game_move.to
                     /\ built[i].bounds = Expected(built[i].game_move)
              /\ DOMAIN after = DOMAIN before \cup { n.moves[i].to : i \in 1..Len(n.moves) }
              /\ \A k \in DOMAIN before : after[k] = before[k]
              /\ search'.board = pos
              /\ search'.rev_moves = Entered.rev_moves]_vars

\* the child list of D1 has just been built on the first visit, as the
\* fourth node: A2 was searched below D3 and took the bounds stored for it,
\* A1 is new and took the default (11, 1) of a stack move at depth 1
C24_Witness ==
    /\ Looping
    /\ search.nodes = 4
    /\ Top.depth = 1
    /\ Top.child.zobrist = "D1"
    /\ Len(Top.child_pns) = 2
    /\ Top.child_pns[1].zobrist = "A2"
    /\ Top.child_pns[1].bounds = Bounds(INFINITY, 0)
    /\ Top.child_pns[2].zobrist = "A1"
    /\ Top.child_pns[2].bounds = Bounds(11, 1)


(***************************************************************************)
(* C25: tinue_attempts.                                                    *)
(***************************************************************************)
\* mid is about to enter a position where the attacker is to move and the
\* game is not over
EnteringAttackerNode ==
    /\ Entering
    /\ game.graph[Entered.board].side = search.attacker
    /\ ~game.graph[Entered.board].terminal

\* C25: in a search, each entry into a position where the attacker is to
\* move and the game is not over adds one to tinue_cache_hits +
\* tinue_cache_misses and no other step changes them; when tinue_attempts
\* has the position, it is a hit and tinue_attempts and top_moves stay as
\* they are (tinue_evaluate is not called) and mid goes on as the stored
\* outcome says; otherwise it is a miss and tinue_attempts gains exactly
\* that position; no entry is ever changed or removed; so the misses are
\* as many as the entries (where the evaluation stays inside top_moves).
C25_TinueAttemptsMemo ==
    /\ [][(run.phase = "searching" /\ ~IndexOutOfBounds) =>
             LET pos == Entered.board
                 hit == pos \in DOMAIN search.tinue_attempts
                 before == search.tinue_attempts
                 after == search'.tinue_attempts
             IN  /\ \A k \in DOMAIN before : k \in DOMAIN after /\ after[k] = before[k]
                 /\ IF EnteringAttackerNode
                    THEN /\ search'.tinue_cache_hits =
                                search.tinue_cache_hits + (IF hit THEN 1 ELSE 0)
                         /\ search'.tinue_cache_misses =
                                search.tinue_cache_misses + (IF hit THEN 0 ELSE 1)
                         /\ DOMAIN after = DOMAIN before \cup {pos}
                         /\ hit => /\ search'.top_moves = search.top_moves
                                   /\ before[pos].kind = "HasRoad" =>
                                          search'.bounds_table[pos] = winning
                                   /\ before[pos].kind = "NoTakThreats" =>
                                          search'.bounds_table[pos] = losing
                                   /\ before[pos].kind = "TakThreats" =>
                                          /\ Len(frames') = Len(frames)
                                          /\ ChildMoves(Len(frames))' =
                                                 Unseen(before[pos].moves,
                                                        PathTo(Len(frames)))
                    ELSE /\ search'.tinue_cache_hits = search.tinue_cache_hits
                         /\ search'.tinue_cache_misses = search.tinue_cache_misses
                         /\ after = before]_vars
    /\ [](run.phase # "out_of_bounds" =>
             search.tinue_cache_misses = Cardinality(DOMAIN search.tinue_attempts))
    /\ [](run.phase = "new" => search.tinue_cache_hits = 0)

\* a finished search that evaluated three attacker positions and came back
\* to evaluated ones twice
C25_Witness ==
    /\ run.phase = "done"
    /\ search.tinue_cache_misses = 3
    /\ search.tinue_cache_hits >= 2


(***************************************************************************)
(* C26: what defender_responses returns.                                   *)
(***************************************************************************)
\* the moves of a sequence, as a set
Range(q) == { q[i] : i \in 1..Len(q) }

\* the Defenses of the call are as the claim says: every stack move, every
\* wall and capstone placement, and no flat but at most one flat of the
\* defender on the square find_placement_road reported
DefensesAsClaimed ==
    LET out == dresp.out
        flats == { i \in 1..Len(out.moves) :
                       is_place_move(out.moves[i]) /\ is_flat(out.moves[i].piece) }
    IN  /\ Range(dresp.stack_moves) \subseteq Range(out.moves)
        /\ \A m \in Range(dresp.place_moves) :
               (is_wall(m.piece) \/ is_cap(m.piece)) => m \in Range(out.moves)
        /\ Cardinality(flats) <= 1
        /\ \A i \in flats :
               /\ dresp.placement # <<>>
               /\ out.moves[i].piece = flat(dresp.side)
               /\ out.moves[i].sq = dresp.placement[1].sq
        /\ dresp.placement # <<>> => flats # {}

\* C26: defender_responses returns CanWin(m) exactly when can_make_road
\* found a road-completing move m, and otherwise it returns Defenses with
\* every generated stack move, every wall and capstone placement, and no
\* flat placement but at most one flat of the defender on the square where
\* find_placement_road reported the attacker's flat.
C26_DefenderResponses ==
    dresp.phase = "done" =>
        /\ dresp.out.kind = "CanWin" <=> dresp.road # <<>>
        /\ dresp.out.kind = "CanWin" => dresp.out.road = dresp.road
        /\ dresp.road = <<>> => dresp.out.kind = "Defenses" /\ DefensesAsClaimed

\* C26 for the calls that return: CanWin(m) exactly when can_make_road found
\* m, and Defenses, when returned, are as the claim says; no Defenses are
\* returned when there is no stack move.
C26_ReturnedAsClaimed ==
    dresp.phase = "done" =>
        /\ dresp.out.kind = "CanWin" <=> dresp.road # <<>>
        /\ dresp.out.kind = "CanWin" => dresp.out.road = dresp.road
        /\ dresp.out.kind = "Defenses" => dresp.road = <<>> /\ DefensesAsClaimed
        /\ dresp.out.kind = "panic" <=> (dresp.road = <<>> /\ dresp.stack_moves = <<>>)

\* Defenses were returned with two stack moves, blockers on two squares and
\* the flat that parries the attacker's placement
C26_Witness ==
    /\ dresp.phase = "done"
    /\ dresp.out.kind = "Defenses"
    /\ Len(dresp.stack_moves) = 2
    /\ dresp.placement # <<>>
    /\ Len(dresp.out.moves) = 2 + 4 + 1


(***************************************************************************)
(* C27: check_road terminates.                                             *)
(***************************************************************************)
\* the inner loop of check_road with its iterations counted: n executions of
\* the body so far, grows = every execution so far kept the squares it had.
\* Counting stops beyond one execution per square of the board.
RECURSIVE component_count(_, _, _, _, _)
component_count(component, prev, self, n, grows) ==
    IF component = prev \/ n > Cardinality(INNER)
    THEN [component |-> component, iterations |-> n, grows |-> grows]
    ELSE LET next_component == bitor_assign(component, bitand(adjacent(component), self))
         IN  component_count(next_component, component, self, n + 1,
                             grows /\ component \subseteq next_component)

\* the outer loop of check_road with its rounds recorded: for each round the
\* unchecked set it started with, the seed, the inner loop's count and
\* component, and the unchecked set it left (the same set when it returned)
RECURSIVE road_rounds(_, _, _)
road_rounds(unchecked, self, rounds) ==
    IF ~nonzero(unchecked)
    THEN [ret |-> FALSE, rounds |-> rounds]
    ELSE LET p == pop_lowest(unchecked)
             inner == component_count(p.ret, new({}), self, 0, TRUE)
             component == inner.component
             round == [unchecked |-> unchecked, seed |-> p.ret, popped |-> p.rest,
                       inner |-> inner, returned |-> FALSE,
                       rest |-> bitand(p.rest, not(component))]
         IN  IF \/ nonzero(bitand(component, TOP)) /\ nonzero(bitand(component, BOTTOM))
                \/ nonzero(bitand(component, LEFT)) /\ nonzero(bitand(component, RIGHT))
             THEN [ret |-> TRUE,
                   rounds |-> Append(rounds, [round EXCEPT !.returned = TRUE, !.rest = p.rest])]
             ELSE road_rounds(round.rest, self, Append(rounds, round))

check_road_rounds(self) == road_rounds(bitand(self, LEFT_TOP), self, <<>>)

\* C27: check_road terminates on every input: for each seed the inner loop
\* component := component | (adjacent(component) & R) grows monotonically
\* and stops, at a fixed point, after at most 36 iterations (at most one per
\* square of its component), and each round of the outer loop removes at
\* least its seed from the unchecked set, so there are at most 11 rounds
\* (at most one per TOP/LEFT edge square of the input).
C27_CheckRoadTerminates ==
    roadOut.called =>
        LET t == check_road_rounds(roadIn)
        IN  /\ t.ret = roadOut.ret
            /\ Len(t.rounds) <= Cardinality(bitand(roadIn, LEFT_TOP))
            /\ Len(t.rounds) <= 11
            /\ \A i \in 1..Len(t.rounds) :
                   LET r == t.rounds[i]
                   IN  /\ Cardinality(r.seed) = 1
                       /\ r.seed \subseteq r.unchecked
                       /\ r.popped = r.unchecked \ r.seed
                       /\ r.inner.grows
                       /\ r.seed \subseteq r.inner.component
                       /\ r.inner.component \subseteq roadIn
                       /\ r.inner.iterations <= Cardinality(r.inner.component)
                       /\ r.inner.iterations <= 36
                       /\ bitand(adjacent(r.inner.component), roadIn) \subseteq r.inner.component
                       /\ r.inner.component = road_component(r.seed, new({}), roadIn)
                       /\ r.rest \subseteq r.unchecked \ r.seed
                       /\ r.returned <=> (t.ret /\ i = Len(t.rounds))
                       /\ i < Len(t.rounds) => t.rounds[i + 1].unchecked = r.rest

\* a call without a road that took two rounds, the first with an inner loop
\* of two iterations and the second with one of five
C27_Witness ==
    /\ roadOut.called
    /\ ~roadOut.ret
    /\ LET t == check_road_rounds(roadIn)
       IN  /\ Len(t.rounds) = 2
           /\ t.rounds[1].inner.iterations = 2
           /\ t.rounds[2].inner.iterations = 5


(***************************************************************************)
(* C28: the arithmetic of the child thresholds.                            *)
(***************************************************************************)
\* the thresholds of the mid invocation of frame i
Threshold(i) == frames[i].child.bounds

\* C28: the child thresholds computed in mid, phi_new = parent.delta +
\* best.phi - limit.delta and delta_new = min(parent.phi, second_best.delta
\* + 1), are computed without u32 underflow or overflow (the sum parent.delta
\* + best.phi is at most INFINITY/2 + INFINITY and at least limit.delta,
\* second_best.delta + 1 is at most INFINITY + 1), they satisfy phi_new <=
\* parent.delta and delta_new <= parent.phi, and every threshold of the
\* search is at most the root's INFINITY/2.
C28_ThresholdArithmetic ==
    /\ [](Selecting =>
             LET lim == compute_bounds(Top.child_pns)
                 sel == select_child(Top.child_pns)
                 best == Top.child_pns[sel.best_idx + 1]
             IN  /\ Top.child.bounds.delta + best.bounds.phi <= (INFINITY \div 2) + INFINITY
                 /\ Top.child.bounds.delta + best.bounds.phi >= lim.delta
                 /\ sel.second_best.delta + 1 <= INFINITY + 1
                 /\ sel.second_best.delta >= 0
                 /\ lim.delta <= INFINITY)
    /\ [][Selecting =>
             LET lim == compute_bounds(Top.child_pns)
                 sel == select_child(Top.child_pns)
                 best == Top.child_pns[sel.best_idx + 1]
                 new_top == frames'[Len(frames')]
             IN  /\ Len(frames') = Len(frames) + 1
                 /\ new_top.child.zobrist = best.zobrist
                 /\ new_top.child.bounds.phi =
                        Top.child.bounds.delta + best.bounds.phi - lim.delta
                 /\ new_top.child.bounds.delta =
                        min(Top.child.bounds.phi, sel.second_best.delta + 1)
                 /\ new_top.child.bounds.phi <= Top.child.bounds.delta
                 /\ new_top.child.bounds.delta <= Top.child.bounds.phi
                 /\ new_top.child.bounds.phi >= 0
                 /\ new_top.child.bounds.delta >= 0
                 /\ search'.bounds_table[best.zobrist] = new_top.child.bounds]_vars
    /\ [](Searching =>
             \A i \in 1..Len(frames) :
                 /\ Threshold(i).phi <= INFINITY \div 2
                 /\ Threshold(i).delta <= INFINITY \div 2
                 /\ i > 1 => /\ Threshold(i).phi <= Threshold(i - 1).delta
                             /\ Threshold(i).delta <= Threshold(i - 1).phi)

\* a mid three deep whose thresholds are both strictly below its parent's:
\* delta is second_best.delta + 1, phi is the parent's delta less the phi
\* of the other children
C28_Witness ==
    /\ Searching
    /\ Len(frames) = 3
    /\ Threshold(3).phi < Threshold(2).delta
    /\ Threshold(3).delta < Threshold(2).phi
    /\ Threshold(3).delta > 1


(***************************************************************************)
(* C29: mid does not recurse into a solved child.                          *)
(***************************************************************************)
\* the children of the node make the node solved: some child has delta = 0
\* or phi = INFINITY, or every child has delta = INFINITY
SolvedByChildren(children) ==
    \/ \E i \in 1..Len(children) :
           children[i].bounds.delta = 0 \/ children[i].bounds.phi = INFINITY
    \/ \A i \in 1..Len(children) : children[i].bounds.delta = INFINITY

\* bounds of a solved node
Solved(b) == b.phi = INFINITY \/ b.delta = INFINITY \/ b.phi = 0 \/ b.delta = 0

\* C29: mid never recurses into a child that is already solved: whenever
\* some child has delta == 0 or phi == INFINITY, or every child has delta ==
\* INFINITY, the exit test of the loop (phi <= limit.phi or delta <=
\* limit.delta) holds, and mid stores the computed limit for the node and
\* returns instead of selecting a child; the child mid does recurse into is
\* not solved.
C29_NoDescentIntoSolved ==
    /\ []((Looping /\ SolvedByChildren(Top.child_pns)) => ExitTest(Top))
    /\ [][(Looping /\ SolvedByChildren(Top.child_pns)) =>
             LET lim == compute_bounds(Top.child_pns)
             IN  /\ Len(frames') = Len(frames) - 1
                 /\ search'.bounds_table[Top.child.zobrist] = lim
                 /\ search'.replies = search.replies
                 /\ Len(frames) > 1 =>
                        frames'[Len(frames')].child_pns[
                            frames[Len(frames) - 1].child.best_child.n + 1].bounds = lim
                 /\ Len(frames) = 1 => run'.root.bounds = lim]_vars
    /\ [][(Searching /\ Len(frames') > Len(frames)) =>
             LET sel == select_child(Top.child_pns)
                 best == Top.child_pns[sel.best_idx + 1]
             IN  /\ Looping
                 /\ ~SolvedByChildren(Top.child_pns)
                 /\ frames'[Len(frames')].child.zobrist = best.zobrist
                 /\ ~Solved(best.bounds)]_vars

\* mid is in the loop of a defender node three deep with two children, the
\* first still open and the second solved (phi = INFINITY), and has just got
\* the second back from the recursive mid
C29_Witness ==
    /\ Looping
    /\ Len(Top.child_pns) = 2
    /\ ~Solved(Top.child_pns[1].bounds)
    /\ Top.child_pns[2].bounds = losing
    /\ Top.child.best_child = Usize(1)


(***************************************************************************)
(* C30: an attacker node all of whose tak threats repeat a position.       *)
(***************************************************************************)
\* mid is at its loop with an empty child_pns
EmptyChildren == Looping /\ Top.child_pns = <<>>

\* every move generated at the position b leads to a position of
\* zobrist_hist and the attacker is to move: the guard of init_pns drops
\* every child
AllRepeat(self, b) ==
    /\ board_side_to_move(b) = self.attacker
    /\ \A i \in 1..Len(board_moves(b)) :
           Contains(self.zobrist_hist, board_do_move(b, board_moves(b)[i]).board)

\* C30: if the repetition guard drops every tak-threat child of an attacker
\* node, the node is stored as Losing (phi = INFINITY, delta = 0):
\* child_pns is empty exactly in that case, compute_bounds of the empty
\* list is Losing, mid returns on the first iteration of its loop without
\* searching another node, and no recursive mid (hence no select_child) is
\* started from an empty child_pns.
C30_AllChildrenDropped ==
    /\ [][(/\ Entering
            /\ Len(frames') = Len(frames)
            /\ frames'[Len(frames')].pc = "loop")
             => /\ board_moves(search'.board) # <<>>
                /\ frames'[Len(frames')].child_pns = <<>>
                       <=> AllRepeat(search', search'.board)]_vars
    /\ [](EmptyChildren =>
             /\ compute_bounds(Top.child_pns) = losing
             /\ ExitTest(Top)
             /\ AllRepeat(search, search.board)
             /\ board_moves(search.board) # <<>>)
    /\ [][EmptyChildren =>
             /\ Len(frames') = Len(frames) - 1
             /\ search'.bounds_table[Top.child.zobrist] = losing
             /\ search'.nodes = search.nodes
             /\ Len(frames) > 1 =>
                    frames'[Len(frames')].child_pns[
                        frames[Len(frames) - 1].child.best_child.n + 1].bounds = losing]_vars
    /\ [][(Searching /\ Len(frames') > Len(frames)) => Top.child_pns # <<>>]_vars

\* the root position was reached again by a defence, its only tak threat
\* repeats a position of the line, and mid has returned it to the defender
\* node as Losing
C30_Witness ==
    /\ Looping
    /\ Len(frames) = 4
    /\ search.board = "D0"
    /\ game.root = "A0"
    /\ Contains(search.zobrist_hist, "D1")
    /\ board_moves("A0") = <<GameMove("D1", FALSE)>>
    /\ Top.child_pns[1].zobrist = "A0"
    /\ Top.child_pns[1].bounds = losing
    /\ search.bounds_table["A0"] = losing


(***************************************************************************)
(* C31: the assertions of the search.                                      *)
(***************************************************************************)
\* assert_eq!(child.zobrist, self.board.hash()) and assert!(!moves.is_empty())
\* hold where mid is about to enter a position
MidAssertionsHold ==
    (Entering /\ ~flat_game(Entered.board)) =>
        LET o == mid_outcome(Entered, Top.depth)
        IN  /\ Top.child.zobrist = Entered.board
            /\ o.outcome.kind \in {"TakThreats", "Defenses"} => ~(o.outcome.moves = <<>>)

\* C31: the assertions in the search never fail in any reachable search
\* state: at every defender node where the defender has no immediate road
\* the generated stack-move list is non-empty (defender_responses never
\* panics), the move list at every expanded node is non-empty, and after
\* applying a child's move the board hash equals the zobrist recorded for
\* that child by init_pns.
C31_AssertionsHold ==
    /\ run.phase # "panic"
    /\ Entering => Top.child.zobrist = Entered.board
    /\ Entering => ~NoStackMove(Entered.board)
    /\ MidAssertionsHold

\* C31 without the assertion of defender_responses: the zobrist recorded for
\* a child is the hash of the board after its move, the move list of every
\* expanded node is non-empty, and the search panics exactly where it
\* enters a defender node without a road and without a stack move.
C31_MidAssertionsHold ==
    /\ [](Entering => Top.child.zobrist = Entered.board)
    /\ [](Looping => /\ Top.child.zobrist = search.board
                     /\ ~(board_moves(search.board) = <<>>))
    /\ []MidAssertionsHold
    /\ [][(Entering /\ ~OverBudget) =>
             (run'.phase = "panic" <=> NoStackMove(Entered.board))]_vars
    /\ [](run.phase = "panic" => NoStackMove(search.board))

\* the search has expanded a defender node three deep that has a placement
\* and a stack move
C31_Witness ==
    /\ Looping
    /\ Len(frames) = 4
    /\ search.board = "D0"
    /\ Len(Top.child_pns) = 2
    /\ ~Top.child_pns[1].game_move.is_stack_move
    /\ Top.child_pns[2].game_move.is_stack_move


(***************************************************************************)
(* C32: the indices into top_moves.                                        *)
(***************************************************************************)
\* mid is about to evaluate the position of its child: it is past the node
\* budget and the position is not a flat game
Evaluating == Entering /\ ~flat_game(Entered.board)

\* the node under evaluation has the attacker to move
AttackerToMove == board_side_to_move(Entered.board) = Entered.attacker

\* C32: the search never indexes top_moves outside its 100 entries: in
\* every reachable search state an attacker node evaluated by
\* tinue_evaluate has depth + 2 < 100 and a defender node that finds CanWin
\* has depth < 100, so that no search path panics on the top-moves table.
C32_TopMovesInBounds ==
    /\ run.phase # "out_of_bounds"
    /\ (Evaluating /\ AttackerToMove) => Top.depth + 2 < TOP_MOVES_LEN
    /\ (Evaluating /\ ~AttackerToMove
            /\ can_make_road_hint(Entered.board, hint_at(Entered, Top.depth)) # null_move)
         => Top.depth < TOP_MOVES_LEN

\* what holds instead: the depth of a node is the number of moves from the
\* root to it, nothing in mid bounds it, and the search ends on the index
\* just where an attacker node without a road is evaluated at a depth of
\* 98 or more, or a defender node with a road at a depth of 100 or more
C32_PanicsAtTheIndex ==
    /\ [](Searching => Top.depth = Len(frames) - 1)
    /\ [][Evaluating =>
             (run'.phase = "out_of_bounds" <=>
                 IF AttackerToMove
                 THEN \/ Top.depth >= TOP_MOVES_LEN
                      \/ /\ Top.depth + 2 >= TOP_MOVES_LEN
                         /\ can_make_road_hint(Entered.board, hint_at(Entered, Top.depth)) = null_move
                 ELSE /\ Top.depth >= TOP_MOVES_LEN
                      /\ can_make_road_hint(Entered.board, hint_at(Entered, Top.depth)) # null_move)]_vars

\* the search stands before the attacker node 98 moves below the root, on
\* a line where every node has one move
C32_Witness ==
    /\ Evaluating
    /\ AttackerToMove
    /\ Top.depth = 98
    /\ Len(frames) = 99
    /\ Entered.board = LadderNames[98]


(***************************************************************************)
(* C33: the history of hashes.                                             *)
(***************************************************************************)
\* the hashes of the positions of the invocations of mid that are past
\* their budget check, from the root to the innermost
ZobristPath == [i \in 1..EnteredFrames |-> frames[i].child.zobrist]

\* the invocations of mid in progress are a line of play: each position is
\* the one its caller's position turns into by the child's move
IsLineOfPlay ==
    /\ EnteredFrames >= 1 => frames[1].child.zobrist = game.root
    /\ \A i \in 2..EnteredFrames :
           frames[i].child.zobrist =
               board_do_move(frames[i - 1].child.zobrist, frames[i].child.game_move).board

\* inside a mid that is past its budget check, zobrist_hist is the hashes
\* of the line of play, one more than rev_moves
HistoryIsPath ==
    (Searching /\ EnteredFrames >= 1) =>
        /\ IsLineOfPlay
        /\ search.zobrist_hist = ZobristPath
        /\ Len(search.zobrist_hist) = Len(search.rev_moves) + 1

\* C33: while the search is inside a non-aborted mid call, zobrist_hist is
\* exactly the sequence of position hashes on the path from the root to the
\* current node, in order, with length rev_moves.len() + 1; each mid call
\* pushes one hash and the matching undo_move pops it together with its
\* reverse move (so that nothing is left of them when the outermost mid has
\* returned), and hashes of positions off the current path are never in
\* the history used by the repetition guard.
C33_ZobristHistIsPath ==
    /\ HistoryIsPath
    /\ run.phase \in {"returned", "done"} =>
           /\ search.rev_moves = <<>>
           /\ search.zobrist_hist = <<>>

\* what holds instead: the history is the path inside every mid, each mid
\* below the root pops the hash it pushed together with its reverse move,
\* and the outermost mid, which has no move to undo, leaves the hash of the
\* root in zobrist_hist when it returns
C33_RootHashStays ==
    /\ []HistoryIsPath
    /\ [][(Looping /\ Len(frames') < Len(frames) /\ Len(frames) > 1) =>
             /\ search'.zobrist_hist = SubSeq(search.zobrist_hist, 1, Len(search.zobrist_hist) - 1)
             /\ search'.rev_moves = SubSeq(search.rev_moves, 1, Len(search.rev_moves) - 1)]_vars
    /\ [][(Looping /\ Len(frames) = 1 /\ frames' = <<>>) =>
             /\ search'.zobrist_hist = search.zobrist_hist
             /\ search'.zobrist_hist = <<game.root>>]_vars
    /\ [](run.phase \in {"returned", "done"} =>
             /\ search.rev_moves = <<>>
             /\ search.zobrist_hist = IF ~usize_gt(1, search.max_nodes)
                                      THEN <<game.root>> ELSE <<>>)

\* the search is four positions deep after it has come back from a deeper
\* one: the history is the four hashes of the path
C33_Witness ==
    /\ Looping
    /\ Len(frames) = 4
    /\ Len(search.zobrist_hist) = 4
    /\ Len(search.rev_moves) = 3
    /\ search.nodes >= 6
    /\ ~aborted(search)


(***************************************************************************)
(* C34: the end of principal_variation.                                    *)
(***************************************************************************)
\* following replies from the root comes to a position without a reply
\* before any position comes up a second time
RepliesEnd == pv_walk(game.root, search.replies, <<>>, <<>>, {}).returns

\* C34: principal_variation terminates after any search: following
\* replies[hash] from the root never revisits a position, i.e. the replies
\* map built by mid contains no cycle of positions reachable from the
\* root, even though defender-side repetitions are not pruned.
C34_PrincipalVariationTerminates ==
    /\ pvCall.called => pvCall.returned
    /\ run.phase = "done" => RepliesEnd

\* what holds instead in these games: after a search that answered
\* Some(true) the replies from the root end, and principal_variation
\* returns; after Some(false) or None they may run in a circle through a
\* defender's move back to a position of the line
C34_TinueLineEnds ==
    (run.phase = "done" /\ run.result = "Some(true)") =>
        /\ RepliesEnd
        /\ pvCall.called => pvCall.returned

\* principal_variation was called after a search that answered Some(false)
\* and walks the circle A0, D1, A1, D0, A0
C34_Witness ==
    /\ run.phase = "done"
    /\ run.result = "Some(false)"
    /\ pvCall.called
    /\ ~pvCall.returned
    /\ Len(pvCall.pv) = 4
    /\ board_do_move("D0", pvCall.pv[4]).board = "A0"


(***************************************************************************)
(* C35: reset_view and expand_line.                                        *)
(***************************************************************************)
\* reset_view has returned: the board is the one the InteractiveSearch was
\* made on and view_hist is empty
ViewIsReset ==
    view.last = "reset_view" =>
        /\ view.board = view.created[1]
        /\ view.view_hist = <<>>

C35_LegalLinesRestore ==
    /\ [](view.legal => ViewIsReset)
    /\ [][(view'.last = "expand_line" /\ view'.legal) =>
             /\ view'.board = view.board
             /\ view'.view_hist = view.view_hist
             /\ view.expand \subseteq view'.expand]_vars
    /\ [](view.last = "panic" => ~view.legal)

\* reset_view has returned after two requests, one of them a legal move
\* walked by expand_line, on the board with the two opening placements
C35_Witness ==
    /\ view.last = "reset_view"
    /\ view.legal
    /\ view.n = 2
    /\ Cardinality(view.expand) = 2
    /\ view.board = view.created[1]
    /\ view.board.ply = 2

====
